---- MODULE Spec2Model ----
(***************************************************************************)
(* Session-management and Basic-authentication back ends of the            *)
(* alx-backend-user-data exercises, modelled from the Python sources.      *)
(*                                                                         *)
(* A Python value is a string of the model: the tags below stand for the   *)
(* values that are not strings.  A method is an operator from the state it *)
(* reads to a record holding its result (val), the exception it raised     *)
(* (exc, NoExc when it returned) and the state it leaves.                  *)
(***************************************************************************)
EXTENDS Integers, Sequences, FiniteSets, TLC

\* ------------------------------------------------------------------ bounds
MaxTime == 3          \* the clock stops after this many ticks
MaxSessions == 2      \* sessions create_session opens per behaviour
MaxUsers == 1         \* users create_user stores per behaviour
TicksPerSecond == 2   \* resolution of the clock: ticks in one second
MaxPayload == 4       \* characters of a header after its scheme
MaxDbUsers == 2       \* rows of the users table of 0x03
MaxDbSessions == 3    \* sessions Auth.create_session opens
MaxPath == 5          \* characters of a path given to require_auth
MaxPattern == 4       \* characters of an excluded pattern
MaxText == 4          \* characters of a text encoded into a Basic header

\* ----------------------------------------------------------- Python values
None == "<None>"
PyTrue == "<True>"
PyFalse == "<False>"
NotAStr == "<int 5>"          \* some value that is not a str
NoAttr == "<no attribute>"    \* the object has no such attribute
NoExc == "<returned>"         \* no exception: the call returned

\* isinstance(v, str)
IsStr(v) == v \notin {None, PyTrue, PyFalse, NotAStr}

\* `not v`
Falsy(v) == v \in {None, PyFalse, ""}

\* dict.get(k) on a dict held as a function
DictGet(d, k) == IF k \in DOMAIN d THEN d[k] ELSE None

\* del d[k]
DictDel(d, k) == [x \in DOMAIN d \ {k} |-> d[x]]

\* d[k] = v
DictSet(d, k, v) == [x \in DOMAIN d \cup {k} |-> IF x = k THEN v ELSE d[x]]

EmptyDict == <<>>

\* str(uuid.uuid4()): the n-th identifier drawn; 122 random bits, so one that
\* was not drawn before
uuid4(n) == "uuid-" \o ToString(n)

\* what a method hands back
Returned(v) == [val |-> v, exc |-> NoExc]
Raised(e) == [val |-> None, exc |-> e]

\* --------------------------------------------------------------- requests
\* A request is None or carries at most one session cookie.
NoRequest == [is_none |-> TRUE, cookie |-> None]
Request(c) == [is_none |-> FALSE, cookie |-> c]

\* Auth.session_cookie
session_cookie(request) ==
    IF request.is_none THEN None ELSE request.cookie

\* ------------------------------------------- ExpiringDict (session_exp_auth)
\* _data maps a key to [value, created_at]; expiration_time is in seconds.

\* the buggy comparison of the mutant: an entry expires at the bound already
ExpIsValidStrict(data, expiration_time, key, now) ==
    IF expiration_time <= 0 THEN TRUE
    ELSE IF key \notin DOMAIN data THEN FALSE
    ELSE data[key].created_at + expiration_time * TicksPerSecond > now

\* ExpiringDict._is_valid
ExpIsValid(data, expiration_time, key, now) ==
    IF expiration_time <= 0 THEN TRUE
    ELSE IF key \notin DOMAIN data THEN FALSE
    ELSE data[key].created_at + expiration_time * TicksPerSecond >= now

\* ExpiringDict._expire_key
ExpExpireKey(data, key) ==
    IF key \in DOMAIN data THEN DictDel(data, key) ELSE data

\* the mutant of ExpGetItem: a read that finds the entry valid stamps it anew
ExpGetItemRestamped(data, expiration_time, key, now) ==
    IF key \notin DOMAIN data
        THEN [val |-> None, hit |-> FALSE, exc |-> NoExc, data |-> data]
    ELSE IF ~ExpIsValid(data, expiration_time, key, now)
        THEN [val |-> None, hit |-> FALSE, exc |-> NoExc,
              data |-> ExpExpireKey(data, key)]
    ELSE [val |-> data[key].value, hit |-> TRUE, exc |-> NoExc,
          data |-> [data EXCEPT ![key].created_at = now]]

\* ExpiringDict.__getitem__: the value, and the _data it leaves; hit tells
\* that val is a stored value and not the None of a miss
ExpGetItem(data, expiration_time, key, now) ==
    IF key \notin DOMAIN data
        THEN [val |-> None, hit |-> FALSE, exc |-> NoExc, data |-> data]
    ELSE IF ~ExpIsValid(data, expiration_time, key, now)
        THEN [val |-> None, hit |-> FALSE, exc |-> NoExc,
              data |-> ExpExpireKey(data, key)]
    ELSE [val |-> data[key].value, hit |-> TRUE, exc |-> NoExc, data |-> data]

\* ExpiringDict.__setitem__
ExpSetItem(data, key, value, now) ==
    DictSet(data, key, [value |-> value, created_at |-> now])

\* the mutant of ExpDelItem: a key that is not held is passed over in silence
ExpDelItemQuiet(data, key) ==
    IF key \in DOMAIN data
        THEN [val |-> None, exc |-> NoExc, data |-> DictDel(data, key)]
        ELSE [val |-> None, exc |-> NoExc, data |-> data]

\* ExpiringDict.__delitem__
ExpDelItem(data, key) ==
    IF key \in DOMAIN data
        THEN [val |-> None, exc |-> NoExc, data |-> DictDel(data, key)]
        ELSE [val |-> None, exc |-> "KeyError", data |-> data]

\* ExpiringDict.__contains__
ExpContains(data, key) == key \in DOMAIN data

\* ------------------------------------------------- ExpiringDict (utils)
\* The class of utils.py: the same _data, and a get method.

\* utils.ExpiringDict._is_valid
UtilsExpIsValid(data, expiration_time, key, now) ==
    IF expiration_time <= 0 THEN TRUE
    ELSE IF key \notin DOMAIN data THEN FALSE
    ELSE data[key].created_at + expiration_time * TicksPerSecond >= now

\* utils.ExpiringDict.expire_key
UtilsExpExpireKey(data, key) ==
    IF key \in DOMAIN data THEN DictDel(data, key) ELSE data

\* utils.ExpiringDict.__getitem__
UtilsExpGetItem(data, expiration_time, key, now) ==
    IF key \notin DOMAIN data
        THEN [val |-> None, hit |-> FALSE, exc |-> NoExc, data |-> data]
    ELSE IF ~UtilsExpIsValid(data, expiration_time, key, now)
        THEN [val |-> None, hit |-> FALSE, exc |-> NoExc,
              data |-> UtilsExpExpireKey(data, key)]
    ELSE [val |-> data[key].value, hit |-> TRUE, exc |-> NoExc, data |-> data]

\* utils.ExpiringDict.get
UtilsExpGet(data, expiration_time, key, default, now) ==
    IF key \in DOMAIN data
        THEN UtilsExpGetItem(data, expiration_time, key, now)
        ELSE [val |-> default, hit |-> FALSE, exc |-> NoExc, data |-> data]

\* utils.ExpiringDict.__setitem__
UtilsExpSetItem(data, key, value, now) ==
    DictSet(data, key, [value |-> value, created_at |-> now])

\* utils.ExpiringDict.__delitem__
UtilsExpDelItem(data, key) ==
    IF key \in DOMAIN data
        THEN [val |-> None, exc |-> NoExc, data |-> DictDel(data, key)]
        ELSE [val |-> None, exc |-> "KeyError", data |-> data]

\* utils.ExpiringDict.__contains__
UtilsExpContains(data, key) == key \in DOMAIN data

\* ---------------------------------------------------- models.base storage
\* A stored object.  created_at is a tick of the clock; aware tells whether
\* the datetime carries a time zone (datetime.now(timezone.utc)) or is naive
\* (datetime.strptime of what the file holds).  An attribute the class does
\* not set is NoAttr.
NoneObj ==
    [cls |-> "NoneType", id |-> None, created_at |-> 0, aware |-> FALSE,
     email |-> NoAttr, password |-> NoAttr,
     user_id |-> NoAttr, session_id |-> NoAttr]

\* getattr(obj, k, None)
GetAttr(obj, k) == IF obj[k] = NoAttr THEN None ELSE obj[k]

\* User._encrypt_password / encrypt_password: SHA-256, here a tagged copy
encrypt_password(pwd) == "sha256(" \o pwd \o ")"

\* User(): Base.__init__ draws the id and stamps created_at in UTC
NewUser(id, now, email, pwd) ==
    [cls |-> "User", id |-> id, created_at |-> now, aware |-> TRUE,
     email |-> email,
     password |-> IF ~IsStr(pwd) \/ Falsy(pwd) THEN None
                  ELSE encrypt_password(pwd),
     user_id |-> NoAttr, session_id |-> NoAttr]

\* UserSession(user_id=..., session_id=...)
NewUserSession(id, now, user_id, session_id) ==
    [cls |-> "UserSession", id |-> id, created_at |-> now, aware |-> TRUE,
     email |-> NoAttr, password |-> NoAttr,
     user_id |-> user_id, session_id |-> session_id]

\* value.strftime(TIMESTAMP_FORMAT): whole seconds, no time zone
strftime(t) == (t \div TicksPerSecond) * TicksPerSecond

\* Base.to_json(for_serialization=True): every attribute the object has
to_json(obj) ==
    [id |-> obj.id, created_at |-> strftime(obj.created_at),
     email |-> obj.email, password |-> obj.password,
     user_id |-> obj.user_id, session_id |-> obj.session_id]

\* User(**obj_data): what User.__init__ keeps of a record of the file
UserFromJson(j) ==
    [cls |-> "User", id |-> j.id, created_at |-> j.created_at,
     aware |-> FALSE,
     email |-> GetAttr(j, "email"), password |-> GetAttr(j, "password"),
     user_id |-> NoAttr, session_id |-> NoAttr]

\* A _storage dict is the sequence of its values in insertion order, keyed
\* by their id.
StorageHas(st, id) == \E i \in 1..Len(st) : st[i].id = id

\* _storage.get(obj_id)
StorageGet(st, id) ==
    IF StorageHas(st, id)
        THEN st[CHOOSE i \in 1..Len(st) : st[i].id = id]
        ELSE NoneObj

\* _storage[obj.id] = obj
StoragePut(st, obj) ==
    IF StorageHas(st, obj.id)
        THEN [i \in 1..Len(st) |-> IF st[i].id = obj.id THEN obj ELSE st[i]]
        ELSE Append(st, obj)

\* del _storage[id]
StorageDel(st, id) == SelectSeq(st, LAMBDA o : o.id # id)

\* The state of the models package: Base._storage, the class attribute every
\* model class inherits; User._storage, the attribute load_from_file sets on
\* User alone (User_own says it did); and the two files.
EmptyModels ==
    [Base_storage |-> <<>>, User_storage |-> <<>>, User_own |-> FALSE,
     file_User |-> [exists |-> FALSE, objs |-> <<>>],
     file_UserSession |-> [exists |-> FALSE, objs |-> <<>>]]

\* cls._storage
ClsStorage(m, cls) ==
    IF cls = "User" /\ m.User_own THEN m.User_storage ELSE m.Base_storage

\* cls._storage after a mutation of the dict
WithClsStorage(m, cls, st) ==
    IF cls = "User" /\ m.User_own
        THEN [m EXCEPT !.User_storage = st]
        ELSE [m EXCEPT !.Base_storage = st]

\* Base.save_to_file
save_to_file(m, cls) ==
    LET st == ClsStorage(m, cls)
        f == [exists |-> TRUE, objs |-> [i \in 1..Len(st) |-> to_json(st[i])]]
    IN  IF cls = "User" THEN [m EXCEPT !.file_User = f]
        ELSE [m EXCEPT !.file_UserSession = f]

\* Base.save
save(m, obj) ==
    save_to_file(
        WithClsStorage(m, obj.cls, StoragePut(ClsStorage(m, obj.cls), obj)),
        obj.cls)

\* Base.remove
remove(m, obj) ==
    IF StorageHas(ClsStorage(m, obj.cls), obj.id)
        THEN save_to_file(
                WithClsStorage(m, obj.cls,
                               StorageDel(ClsStorage(m, obj.cls), obj.id)),
                obj.cls)
        ELSE m

\* Base.load_from_file, for User: the file's records become the class's own
\* dict
load_from_file_User(m) ==
    IF ~m.file_User.exists THEN m
    ELSE [m EXCEPT
            !.User_own = TRUE,
            !.User_storage =
                [i \in 1..Len(m.file_User.objs) |->
                    UserFromJson(m.file_User.objs[i])]]

\* Base.get
get(m, cls, obj_id) == StorageGet(ClsStorage(m, cls), obj_id)

\* Query._get_results of cls.search({attr: value})
search(m, cls, attr, value) ==
    SelectSeq(ClsStorage(m, cls), LAMBDA o : GetAttr(o, attr) = value)

\* Query.first
first(results) == IF Len(results) > 0 THEN results[1] ELSE NoneObj

\* bool(query): Query defines neither __bool__ nor __len__
QueryTruthy(results) == TRUE

\* ------------------------------------------------------------ SessionAuth
\* store is SessionAuth.user_id_by_session_id, the class-level dict; n is the
\* number of identifiers uuid4 has handed out; drawn is how many the call
\* takes.

\* SessionAuth.create_session
SessionAuth_create_session(store, user_id, n) ==
    IF user_id = None \/ ~IsStr(user_id)
        THEN [val |-> None, exc |-> NoExc, store |-> store, drawn |-> 0]
        ELSE [val |-> uuid4(n), exc |-> NoExc,
              store |-> DictSet(store, uuid4(n), user_id), drawn |-> 1]

\* SessionAuth.user_id_for_session_id
SessionAuth_user_id_for_session_id(store, session_id) ==
    IF Falsy(session_id) \/ ~IsStr(session_id)
        THEN Returned(None)
        ELSE Returned(DictGet(store, session_id))

\* the mutant of SessionAuth.destroy_session: the del empties the store
SessionAuth_destroy_session_all(store, request) ==
    LET session_id == session_cookie(request)
        user_id == SessionAuth_user_id_for_session_id(store, session_id).val
    IN  IF request.is_none \/ Falsy(session_id) \/ Falsy(user_id)
            THEN [val |-> PyFalse, exc |-> NoExc, store |-> store]
        ELSE IF session_id \notin DOMAIN store
            THEN [val |-> None, exc |-> "KeyError", store |-> store]
        ELSE [val |-> PyTrue, exc |-> NoExc, store |-> EmptyDict]

\* SessionAuth.destroy_session, self a plain SessionAuth
SessionAuth_destroy_session(store, request) ==
    LET session_id == session_cookie(request)
        user_id == SessionAuth_user_id_for_session_id(store, session_id).val
    IN  IF request.is_none \/ Falsy(session_id) \/ Falsy(user_id)
            THEN [val |-> PyFalse, exc |-> NoExc, store |-> store]
        ELSE IF session_id \notin DOMAIN store
            THEN [val |-> None, exc |-> "KeyError", store |-> store]
        ELSE [val |-> PyTrue, exc |-> NoExc,
              store |-> DictDel(store, session_id)]

\* SessionAuth.current_user, self a plain SessionAuth: the id of the object
\* User.get returns, None when it returns None
SessionAuth_current_user(store, m, request) ==
    LET session_id == session_cookie(request)
        user_id == SessionAuth_user_id_for_session_id(store, session_id).val
    IN  IF session_id = None \/ user_id = None
            THEN Returned(None)
            ELSE Returned(get(m, "User", user_id).id)

\* --------------------------------------------------------- SessionExpAuth
\* data is the _data of the instance's ExpiringDict.

\* int(os.getenv("SESSION_DURATION", 0)) with ValueError caught: env is the
\* variable's text, Unset when it is not set, and a text that is no integer
\* literal gives 0
Unset == "<unset>"
IntLiterals == {"-1", "1"}
IntOf(text) ==
    CASE text = "-1" -> 0 - 1
      [] text = "1" -> 1
SessionExpAuth_init(env) ==
    IF env = Unset THEN 0
    ELSE IF env \in IntLiterals THEN IntOf(env)
    ELSE 0

\* the session dict SessionExpAuth.create_session stores as the value
SessionDict(user_id, created_at) ==
    [user_id |-> user_id, created_at |-> created_at]

\* SessionExpAuth.create_session: SessionAuth.create_session stores the user
\* id under the new key, then the session dict overwrites it
SessionExpAuth_create_session(data, user_id, n, now) ==
    IF user_id = None \/ ~IsStr(user_id)
        THEN [val |-> None, exc |-> NoExc, data |-> data, drawn |-> 0]
        ELSE [val |-> uuid4(n), exc |-> NoExc,
              data |-> ExpSetItem(data, uuid4(n),
                                  SessionDict(user_id, now), now),
              drawn |-> 1]

\* SessionExpAuth.user_id_for_session_id
SessionExpAuth_user_id_for_session_id(data, duration, session_id, now) ==
    LET got == ExpGetItem(data, duration, session_id, now)
    IN  IF session_id = None
            THEN [val |-> None, exc |-> NoExc, data |-> data]
        ELSE IF ~got.hit
            THEN [val |-> None, exc |-> NoExc, data |-> got.data]
        ELSE [val |-> got.val.user_id, exc |-> NoExc, data |-> got.data]

\* SessionAuth.destroy_session, self a SessionExpAuth
SessionExpAuth_destroy_session(data, duration, request, now) ==
    LET session_id == session_cookie(request)
        looked == SessionExpAuth_user_id_for_session_id(
                      data, duration, session_id, now)
        deleted == ExpDelItem(looked.data, session_id)
    IN  IF request.is_none \/ Falsy(session_id)
            THEN [val |-> PyFalse, exc |-> NoExc, data |-> data]
        ELSE IF Falsy(looked.val)
            THEN [val |-> PyFalse, exc |-> NoExc, data |-> looked.data]
        ELSE IF deleted.exc # NoExc
            THEN deleted
        ELSE [val |-> PyTrue, exc |-> NoExc, data |-> deleted.data]

\* SessionAuth.current_user, self a SessionExpAuth
SessionExpAuth_current_user(data, duration, m, request, now) ==
    LET session_id == session_cookie(request)
        looked == SessionExpAuth_user_id_for_session_id(
                      data, duration, session_id, now)
    IN  IF session_id = None
            THEN [val |-> None, exc |-> NoExc, data |-> data]
        ELSE IF looked.val = None
            THEN [val |-> None, exc |-> NoExc, data |-> looked.data]
        ELSE [val |-> get(m, "User", looked.val).id, exc |-> NoExc,
              data |-> looked.data]

\* ---------------------------------------------------------- SessionDBAuth
\* m is the state of the models package.

\* SessionDBAuth.create_session: one identifier for the session, one for the
\* record
SessionDBAuth_create_session(m, user_id, n, now) ==
    [val |-> uuid4(n), exc |-> NoExc,
     m |-> save(m, NewUserSession(uuid4(n + 1), now, user_id, uuid4(n))),
     drawn |-> 2]

\* datetime.now() > exp_time: a naive datetime against exp_time, which is
\* aware when created_at is
NaiveAfter(now, exp_time, aware) ==
    IF aware THEN Raised("TypeError")
    ELSE Returned(IF now > exp_time THEN PyTrue ELSE PyFalse)

\* SessionDBAuth.user_id_for_session_id
SessionDBAuth_user_id_for_session_id(m, duration, session_id, now) ==
    LET sessions == search(m, "UserSession", "session_id", session_id)
        found == first(sessions)
        exp_time == found.created_at + duration * TicksPerSecond
        late == NaiveAfter(now, exp_time, found.aware)
    IN  IF ~QueryTruthy(sessions)
            THEN [val |-> None, exc |-> NoExc, m |-> m]
        ELSE IF found = NoneObj
            THEN [val |-> None, exc |-> "AttributeError", m |-> m]
        ELSE IF late.exc # NoExc
            THEN [val |-> None, exc |-> late.exc, m |-> m]
        ELSE IF late.val = PyTrue /\ duration > 0
            THEN [val |-> None, exc |-> NoExc, m |-> remove(m, found)]
        ELSE IF found.user_id = NoAttr
            THEN [val |-> None, exc |-> "AttributeError", m |-> m]
        ELSE [val |-> found.user_id, exc |-> NoExc, m |-> m]

\* SessionDBAuth.destroy_session
SessionDBAuth_destroy_session(m, request) ==
    LET session_id == session_cookie(request)
        sessions == search(m, "UserSession", "session_id", session_id)
        found == first(sessions)
    IN  IF ~QueryTruthy(sessions)
            THEN [val |-> PyFalse, exc |-> NoExc, m |-> m]
        ELSE IF found = NoneObj
            THEN [val |-> None, exc |-> "AttributeError", m |-> m]
        ELSE [val |-> PyTrue, exc |-> NoExc, m |-> remove(m, found)]

\* SessionAuth.current_user, self a SessionDBAuth
SessionDBAuth_current_user(m, duration, request, now) ==
    LET session_id == session_cookie(request)
        looked == SessionDBAuth_user_id_for_session_id(
                      m, duration, session_id, now)
    IN  IF session_id = None
            THEN [val |-> None, exc |-> NoExc, m |-> m]
        ELSE IF looked.exc # NoExc \/ looked.val = None
            THEN looked
        ELSE [val |-> get(looked.m, "User", looked.val).id, exc |-> NoExc,
              m |-> looked.m]

\* ------------------------------------- the storage when the file may fail
\* ok tells whether open(file_path, "w") succeeds; when it does not, open
\* raises OSError and the file stays as it was.

\* Base.save_to_file
save_to_file_io(m, cls, ok) ==
    IF ok THEN [exc |-> NoExc, m |-> save_to_file(m, cls), wrote |-> TRUE]
    ELSE [exc |-> "OSError", m |-> m, wrote |-> TRUE]

\* the mutant of save_io: the OSError of the write is caught and dropped
save_io_caught(m, obj, ok) ==
    [save_to_file_io(
         WithClsStorage(m, obj.cls, StoragePut(ClsStorage(m, obj.cls), obj)),
         obj.cls, ok) EXCEPT !.exc = NoExc]

\* Base.save: the object is put in _storage, then the file is written
save_io(m, obj, ok) ==
    save_to_file_io(
        WithClsStorage(m, obj.cls, StoragePut(ClsStorage(m, obj.cls), obj)),
        obj.cls, ok)

\* Base.remove: the object is taken out of _storage, then the file is written
remove_io(m, obj, ok) ==
    IF StorageHas(ClsStorage(m, obj.cls), obj.id)
        THEN save_to_file_io(
                WithClsStorage(m, obj.cls,
                               StorageDel(ClsStorage(m, obj.cls), obj.id)),
                obj.cls, ok)
        ELSE [exc |-> NoExc, m |-> m, wrote |-> FALSE]

\* SessionDBAuth.create_session
SessionDBAuth_create_session_io(m, user_id, n, now, ok) ==
    LET saved == save_io(m, NewUserSession(uuid4(n + 1), now, user_id,
                                           uuid4(n)), ok)
    IN  [val |-> IF saved.exc = NoExc THEN uuid4(n) ELSE None,
         exc |-> saved.exc, m |-> saved.m, drawn |-> 2,
         wrote |-> saved.wrote]

\* SessionDBAuth.user_id_for_session_id
SessionDBAuth_user_id_for_session_id_io(m, duration, session_id, now, ok) ==
    LET sessions == search(m, "UserSession", "session_id", session_id)
        found == first(sessions)
        exp_time == found.created_at + duration * TicksPerSecond
        late == NaiveAfter(now, exp_time, found.aware)
        removed == remove_io(m, found, ok)
    IN  IF ~QueryTruthy(sessions)
            THEN [val |-> None, exc |-> NoExc, m |-> m, wrote |-> FALSE]
        ELSE IF found = NoneObj
            THEN [val |-> None, exc |-> "AttributeError", m |-> m,
                  wrote |-> FALSE]
        ELSE IF late.exc # NoExc
            THEN [val |-> None, exc |-> late.exc, m |-> m, wrote |-> FALSE]
        ELSE IF late.val = PyTrue /\ duration > 0
            THEN [val |-> None, exc |-> removed.exc, m |-> removed.m,
                  wrote |-> removed.wrote]
        ELSE IF found.user_id = NoAttr
            THEN [val |-> None, exc |-> "AttributeError", m |-> m,
                  wrote |-> FALSE]
        ELSE [val |-> found.user_id, exc |-> NoExc, m |-> m, wrote |-> FALSE]

\* SessionDBAuth.destroy_session
SessionDBAuth_destroy_session_io(m, request, ok) ==
    LET session_id == session_cookie(request)
        sessions == search(m, "UserSession", "session_id", session_id)
        found == first(sessions)
        removed == remove_io(m, found, ok)
    IN  IF ~QueryTruthy(sessions)
            THEN [val |-> PyFalse, exc |-> NoExc, m |-> m, wrote |-> FALSE]
        ELSE IF found = NoneObj
            THEN [val |-> None, exc |-> "AttributeError", m |-> m,
                  wrote |-> FALSE]
        ELSE [val |-> IF removed.exc = NoExc THEN PyTrue ELSE None,
              exc |-> removed.exc, m |-> removed.m, wrote |-> removed.wrote]

\* ------------------------------------------------ the 0x02 application
VARIABLES
    auth_type,              \* AUTH_TYPE: the class of app.auth
    env,                    \* the text of SESSION_DURATION, or Unset
    session_duration,       \* app.auth.session_duration
    now,                    \* the clock, in ticks
    uuids,                  \* identifiers uuid4 has handed out
    user_id_by_session_id,  \* SessionAuth.user_id_by_session_id
    exp_data,               \* app.auth.user_id_by_session_id._data
    models,                 \* models.base: the dicts and the files
    ret,                    \* the last call: op, arg, val, exc
    users_made,             \* users create_user has stored
    issued,                 \* history: session id -> [user_id, at], as
                            \*   create_session returned them
    destroyed,              \* history: ids destroy_session returned True for;
                            \*   in 0x03, the ids of sessions that were
                            \*   destroyed or replaced by a newer one
    carried,                \* history: ids issued before the last restart
    ed_cls,                 \* the module of the ExpiringDict d
    ed_expiration,          \* d.expiration_time
    ed_data,                \* d._data
    ed_set,                 \* history: key -> [value, at] of the last
                            \*   d[key] = value not followed by del d[key]
    basic_users,            \* 0x01: the stored User objects, oldest first
    db_users,               \* 0x03: the rows of the users table, by id
    reset_tokens,           \* 0x03 history: reset token -> email, for the
                            \*   tokens last handed out and not yet used
    db_class,               \* 0x03: DB._instance, the holder of DB._lock,
                            \*   and how often the tables were dropped
    threads                 \* the calls in progress: thread -> its position,
                            \*   its locals and its result

\* the threads, and a thread that runs no call
Threads == {"t1", "t2"}
Idle == [pc |-> "idle", request |-> NoRequest, found |-> NoneObj,
         live |-> FALSE, val |-> None, exc |-> NoExc]
NoCalls == [t \in Threads |-> Idle]

\* the ExpiringDict checked on its own
edVars == <<ed_cls, ed_expiration, ed_data, ed_set>>

\* the application and its authenticator
appVars == <<auth_type, env, session_duration, uuids,
             user_id_by_session_id, exp_data, models,
             users_made, issued, destroyed, carried>>

\* the application of 0x01-Basic_authentication
basicVars == <<basic_users>>

\* the database of 0x03-user_authentication_service
dbVars == <<db_users, reset_tokens, db_class>>

\* class DB before any DB(): no instance, the lock free
NoDb == [instance |-> None, lock |-> None, made |-> 0, inits |-> 0]

\* the threads that serve requests
thrVars == <<threads>>

vars == <<appVars, edVars, basicVars, dbVars, thrVars, now, ret>>

AuthTypes == {"session_auth", "session_exp_auth", "session_db_auth"}
Envs == {Unset, "abc"} \cup IntLiterals

\* what callers pass as a user id besides the ids of stored users
ArgUserIds == {"bob", "", None, NotAStr}

\* the session cookie of a request: none, empty, one never issued, or one
\* some create_session returned
Cookies == {None, "", "never-issued"} \cup DOMAIN issued
Requests == {NoRequest} \cup {Request(c) : c \in Cookies}
ReqArg(request) == IF request.is_none THEN "<no request>" ELSE request.cookie

Emails == {"a@x.io"}
Passwords == {"pw"}

\* the ids of the users the application can see
UserIds(m) ==
    LET st == ClsStorage(m, "User")
    IN  {st[i].id : i \in {j \in 1..Len(st) : st[j].cls = "User"}}

Call(op, arg, r) == [op |-> op, arg |-> arg, val |-> r.val, exc |-> r.exc]

Init ==
    /\ auth_type \in AuthTypes
    /\ env \in Envs
    /\ auth_type = "session_auth" => env = Unset
    /\ session_duration = SessionExpAuth_init(env)
    /\ now = 0
    /\ uuids = 0
    /\ user_id_by_session_id = EmptyDict
    /\ exp_data = EmptyDict
    /\ models = EmptyModels
    /\ ret = [op |-> "start", arg |-> None, val |-> None, exc |-> NoExc]
    /\ users_made = 0
    /\ issued = EmptyDict
    /\ destroyed = {}
    /\ carried = {}
    /\ ed_cls = "session_exp_auth"
    /\ ed_expiration = 0
    /\ ed_data = EmptyDict
    /\ ed_set = EmptyDict
    /\ basic_users = <<>>
    /\ db_users = <<>>
    /\ reset_tokens = EmptyDict
    /\ db_class = NoDb
    /\ threads = NoCalls

\* app.auth.create_session(user_id)
create_session(auth, store, data, m, user_id, n, t) ==
    CASE auth = "session_auth" ->
            LET r == SessionAuth_create_session(store, user_id, n)
            IN  [val |-> r.val, exc |-> r.exc, drawn |-> r.drawn,
                 store |-> r.store, data |-> data, m |-> m]
      [] auth = "session_exp_auth" ->
            LET r == SessionExpAuth_create_session(data, user_id, n, t)
            IN  [val |-> r.val, exc |-> r.exc, drawn |-> r.drawn,
                 store |-> store, data |-> r.data, m |-> m]
      [] auth = "session_db_auth" ->
            LET r == SessionDBAuth_create_session(m, user_id, n, t)
            IN  [val |-> r.val, exc |-> r.exc, drawn |-> r.drawn,
                 store |-> store, data |-> data, m |-> r.m]

\* app.auth.user_id_for_session_id(session_id)
user_id_for_session_id(auth, store, data, m, duration, session_id, t) ==
    CASE auth = "session_auth" ->
            LET r == SessionAuth_user_id_for_session_id(store, session_id)
            IN  [val |-> r.val, exc |-> r.exc,
                 store |-> store, data |-> data, m |-> m]
      [] auth = "session_exp_auth" ->
            LET r == SessionExpAuth_user_id_for_session_id(
                         data, duration, session_id, t)
            IN  [val |-> r.val, exc |-> r.exc,
                 store |-> store, data |-> r.data, m |-> m]
      [] auth = "session_db_auth" ->
            LET r == SessionDBAuth_user_id_for_session_id(
                         m, duration, session_id, t)
            IN  [val |-> r.val, exc |-> r.exc,
                 store |-> store, data |-> data, m |-> r.m]

\* app.auth.destroy_session(request)
destroy_session(auth, store, data, m, duration, request, t) ==
    CASE auth = "session_auth" ->
            LET r == SessionAuth_destroy_session(store, request)
            IN  [val |-> r.val, exc |-> r.exc,
                 store |-> r.store, data |-> data, m |-> m]
      [] auth = "session_exp_auth" ->
            LET r == SessionExpAuth_destroy_session(
                         data, duration, request, t)
            IN  [val |-> r.val, exc |-> r.exc,
                 store |-> store, data |-> r.data, m |-> m]
      [] auth = "session_db_auth" ->
            LET r == SessionDBAuth_destroy_session(m, request)
            IN  [val |-> r.val, exc |-> r.exc,
                 store |-> store, data |-> data, m |-> r.m]

\* app.auth.current_user(request)
current_user(auth, store, data, m, duration, request, t) ==
    CASE auth = "session_auth" ->
            LET r == SessionAuth_current_user(store, m, request)
            IN  [val |-> r.val, exc |-> r.exc,
                 store |-> store, data |-> data, m |-> m]
      [] auth = "session_exp_auth" ->
            LET r == SessionExpAuth_current_user(
                         data, duration, m, request, t)
            IN  [val |-> r.val, exc |-> r.exc,
                 store |-> store, data |-> r.data, m |-> m]
      [] auth = "session_db_auth" ->
            LET r == SessionDBAuth_current_user(m, duration, request, t)
            IN  [val |-> r.val, exc |-> r.exc,
                 store |-> store, data |-> data, m |-> r.m]

CreateSessionFor(user_ids) ==
    \E user_id \in user_ids :
        LET r == create_session(auth_type, user_id_by_session_id, exp_data,
                                models, user_id, uuids, now)
        IN  /\ Cardinality(DOMAIN issued) < MaxSessions
            /\ user_id_by_session_id' = r.store
            /\ exp_data' = r.data
            /\ models' = r.m
            /\ uuids' = uuids + r.drawn
            /\ ret' = Call("create_session", user_id, r)
            /\ issued' = IF r.exc = NoExc /\ r.val # None
                            THEN DictSet(issued, r.val,
                                         [user_id |-> user_id, at |-> now])
                            ELSE issued
            /\ UNCHANGED <<users_made, auth_type, env, session_duration, now,
                           destroyed, carried, edVars, basicVars, dbVars, thrVars>>

\* create_session called with whatever a caller may pass
CreateSession == CreateSessionFor(ArgUserIds)

\* create_session called as views.session_auth.session_login calls it: with
\* the id of a stored user
CreateSessionOfUser == CreateSessionFor(UserIds(models))

UserIdForSessionId ==
    \E session_id \in Cookies :
        LET r == user_id_for_session_id(
                     auth_type, user_id_by_session_id, exp_data, models,
                     session_duration, session_id, now)
        IN  /\ user_id_by_session_id' = r.store
            /\ exp_data' = r.data
            /\ models' = r.m
            /\ ret' = Call("user_id_for_session_id", session_id, r)
            /\ UNCHANGED <<users_made, auth_type, env, session_duration, now, uuids,
                           issued, destroyed, carried, edVars, basicVars, dbVars, thrVars>>

DestroySession ==
    \E request \in Requests :
        LET r == destroy_session(
                     auth_type, user_id_by_session_id, exp_data, models,
                     session_duration, request, now)
        IN  /\ user_id_by_session_id' = r.store
            /\ exp_data' = r.data
            /\ models' = r.m
            /\ ret' = Call("destroy_session", ReqArg(request), r)
            /\ destroyed' = IF r.exc = NoExc /\ r.val = PyTrue
                               THEN destroyed \cup {session_cookie(request)}
                               ELSE destroyed
            /\ UNCHANGED <<users_made, auth_type, env, session_duration, now, uuids,
                           issued, carried, edVars, basicVars, dbVars, thrVars>>

CurrentUser ==
    \E request \in Requests :
        LET r == current_user(
                     auth_type, user_id_by_session_id, exp_data, models,
                     session_duration, request, now)
        IN  /\ user_id_by_session_id' = r.store
            /\ exp_data' = r.data
            /\ models' = r.m
            /\ ret' = Call("current_user", ReqArg(request), r)
            /\ UNCHANGED <<users_made, auth_type, env, session_duration, now, uuids,
                           issued, destroyed, carried, edVars, basicVars, dbVars, thrVars>>

\* views.users.create_user: User() with the posted email and password, saved
CreateUser ==
    \E email \in Emails, password \in Passwords :
        /\ users_made < MaxUsers
        /\ users_made' = users_made + 1
        /\ models' = save(models, NewUser(uuid4(uuids), now, email, password))
        /\ uuids' = uuids + 1
        /\ ret' = Call("create_user", email, Returned(uuid4(uuids)))
        /\ UNCHANGED <<auth_type, env, session_duration, now,
                       user_id_by_session_id, exp_data,
                       issued, destroyed, carried, edVars, basicVars, dbVars, thrVars>>

\* views.users.delete_user: 404 unless User.get finds the id
DeleteUser ==
    \E user_id \in UserIds(models) \cup {"never-issued"} :
        LET user == get(models, "User", user_id)
        IN  /\ models' = IF user = NoneObj THEN models
                         ELSE remove(models, user)
            /\ ret' = Call("delete_user", user_id,
                           Returned(IF user = NoneObj THEN "404" ELSE "200"))
            /\ UNCHANGED <<users_made, auth_type, env, session_duration, now, uuids,
                           user_id_by_session_id, exp_data,
                           issued, destroyed, carried, edVars, basicVars, dbVars, thrVars>>

\* time passes
Tick ==
    /\ now < MaxTime
    /\ now' = now + 1
    /\ ret' = [op |-> "tick", arg |-> None, val |-> None, exc |-> NoExc]
    /\ UNCHANGED <<users_made, auth_type, env, session_duration, uuids,
                   user_id_by_session_id, exp_data, models,
                   issued, destroyed, carried, edVars, basicVars, dbVars, thrVars>>

\* The process ends and starts again: every module is imported afresh, so the
\* class-level dicts are empty, views/__init__ loads the users file, and
\* app.py builds a new app.auth.  The files stay.
Restart ==
    /\ user_id_by_session_id' = EmptyDict
    /\ exp_data' = EmptyDict
    /\ session_duration' = SessionExpAuth_init(env)
    /\ models' = load_from_file_User(
                    [models EXCEPT !.Base_storage = <<>>,
                                   !.User_storage = <<>>,
                                   !.User_own = FALSE])
    /\ ret' = [op |-> "restart", arg |-> None, val |-> None, exc |-> NoExc]
    /\ carried' = DOMAIN issued
    /\ UNCHANGED <<users_made, auth_type, env, now, uuids, issued, destroyed, edVars, basicVars, dbVars, thrVars>>

\* the session store on its own
Next ==
    \/ CreateSession
    \/ UserIdForSessionId
    \/ DestroySession
    \/ Tick
    \/ Restart

Spec == Init /\ [][Next]_vars

\* the session store and the users current_user looks up
InitUsers == Init /\ env \in {Unset, "1"}

NextUsers ==
    \/ CreateUser
    \/ DeleteUser
    \/ CreateSessionOfUser
    \/ UserIdForSessionId
    \/ DestroySession
    \/ CurrentUser
    \/ Tick
    \/ Restart

SpecUsers == InitUsers /\ [][NextUsers]_vars

\* ------------------------------------------------ an ExpiringDict d alone
EdClasses == {"session_exp_auth", "utils"}
EdKeys == {"k1", "k2"}
EdValues == {"v1", "v2"}
EdDefaults == {None, "fallback"}

InitExpiringDict ==
    /\ auth_type = "session_exp_auth"
    /\ env = Unset
    /\ session_duration = 0
    /\ now = 0
    /\ uuids = 0
    /\ user_id_by_session_id = EmptyDict
    /\ exp_data = EmptyDict
    /\ models = EmptyModels
    /\ ret = [op |-> "start", arg |-> None, val |-> None, exc |-> NoExc]
    /\ users_made = 0
    /\ issued = EmptyDict
    /\ destroyed = {}
    /\ carried = {}
    /\ ed_cls \in EdClasses
    /\ ed_expiration \in -1..2
    /\ ed_data = EmptyDict
    /\ ed_set = EmptyDict
    /\ basic_users = <<>>
    /\ db_users = <<>>
    /\ reset_tokens = EmptyDict
    /\ db_class = NoDb
    /\ threads = NoCalls

\* d[key]
EdGetItemOf(cls, data, expiration_time, key, t) ==
    IF cls = "utils"
        THEN UtilsExpGetItem(data, expiration_time, key, t)
        ELSE ExpGetItem(data, expiration_time, key, t)

\* d[key] = value
EdSetItemOf(cls, data, key, value, t) ==
    IF cls = "utils"
        THEN UtilsExpSetItem(data, key, value, t)
        ELSE ExpSetItem(data, key, value, t)

\* del d[key]
EdDelItemOf(cls, data, key) ==
    IF cls = "utils" THEN UtilsExpDelItem(data, key)
    ELSE ExpDelItem(data, key)

\* key in d
EdContainsOf(cls, data, key) ==
    IF cls = "utils" THEN UtilsExpContains(data, key)
    ELSE ExpContains(data, key)

EdSetItem ==
    \E key \in EdKeys, value \in EdValues :
        /\ ed_data' = EdSetItemOf(ed_cls, ed_data, key, value, now)
        /\ ed_set' = DictSet(ed_set, key, [value |-> value, at |-> now])
        /\ ret' = Call("setitem", key, Returned(None))
        /\ UNCHANGED <<ed_cls, ed_expiration, now, appVars, basicVars, dbVars, thrVars>>

EdGetItem ==
    \E key \in EdKeys :
        LET r == EdGetItemOf(ed_cls, ed_data, ed_expiration, key, now)
        IN  /\ ed_data' = r.data
            /\ ret' = Call("getitem", key, r)
            /\ UNCHANGED <<ed_cls, ed_expiration, ed_set, now, appVars, basicVars, dbVars, thrVars>>

\* d.get(key, default): utils.ExpiringDict alone has the method
EdGet ==
    \E key \in EdKeys, default \in EdDefaults :
        LET r == UtilsExpGet(ed_data, ed_expiration, key, default, now)
        IN  /\ ed_cls = "utils"
            /\ ed_data' = r.data
            /\ ret' = [op |-> "get", arg |-> key, default |-> default,
                       val |-> r.val, exc |-> r.exc]
            /\ UNCHANGED <<ed_cls, ed_expiration, ed_set, now, appVars, basicVars, dbVars, thrVars>>

EdDelItem ==
    \E key \in EdKeys :
        LET r == EdDelItemOf(ed_cls, ed_data, key)
        IN  /\ ed_data' = r.data
            /\ ed_set' = IF key \in DOMAIN ed_set THEN DictDel(ed_set, key)
                         ELSE ed_set
            /\ ret' = Call("delitem", key, r)
            /\ UNCHANGED <<ed_cls, ed_expiration, now, appVars, basicVars, dbVars, thrVars>>

EdContains ==
    \E key \in EdKeys :
        /\ ret' = Call("contains", key,
                       Returned(IF EdContainsOf(ed_cls, ed_data, key)
                                THEN PyTrue ELSE PyFalse))
        /\ UNCHANGED <<edVars, now, appVars, basicVars, dbVars, thrVars>>

EdTick ==
    /\ now < MaxTime
    /\ now' = now + 1
    /\ ret' = [op |-> "tick", arg |-> None, val |-> None, exc |-> NoExc]
    /\ UNCHANGED <<edVars, appVars, basicVars, dbVars, thrVars>>

NextExpiringDict ==
    \/ EdSetItem
    \/ EdGetItem
    \/ EdGet
    \/ EdDelItem
    \/ EdContains
    \/ EdTick

SpecExpiringDict == InitExpiringDict /\ [][NextExpiringDict]_vars

\* ------------------------- SessionExpAuth and SessionDBAuth side by side
\* One SessionExpAuth (exp_data) and one SessionDBAuth (models) built with
\* the same SESSION_DURATION receive the same calls at the same times.  Both
\* are handed the same draw for the session id, so that their results can be
\* compared as they are.  ret holds the result of the first in val and exc,
\* of the second in val_db and exc_db.
PairCall(op, arg, r, r_db) ==
    [op |-> op, arg |-> arg, val |-> r.val, exc |-> r.exc,
     val_db |-> r_db.val, exc_db |-> r_db.exc]

InitPair ==
    /\ auth_type = "session_exp_auth, session_db_auth"
    /\ env \in Envs
    /\ session_duration = SessionExpAuth_init(env)
    /\ now = 0
    /\ uuids = 0
    /\ user_id_by_session_id = EmptyDict
    /\ exp_data = EmptyDict
    /\ models = EmptyModels
    /\ ret = [op |-> "start", arg |-> None, val |-> None, exc |-> NoExc]
    /\ users_made = 0
    /\ issued = EmptyDict
    /\ destroyed = {}
    /\ carried = {}
    /\ ed_cls = "session_exp_auth"
    /\ ed_expiration = 0
    /\ ed_data = EmptyDict
    /\ ed_set = EmptyDict
    /\ basic_users = <<>>
    /\ db_users = <<>>
    /\ reset_tokens = EmptyDict
    /\ db_class = NoDb
    /\ threads = NoCalls

PairCreateSession ==
    \E user_id \in ArgUserIds :
        LET r == SessionExpAuth_create_session(exp_data, user_id, uuids, now)
            r_db == SessionDBAuth_create_session(models, user_id, uuids, now)
        IN  /\ Cardinality(DOMAIN issued) < MaxSessions
            /\ exp_data' = r.data
            /\ models' = r_db.m
            /\ uuids' = uuids + r_db.drawn
            /\ ret' = PairCall("create_session", user_id, r, r_db)
            /\ issued' = DictSet(issued, r_db.val,
                                 [user_id |-> user_id, at |-> now])
            /\ UNCHANGED <<auth_type, env, session_duration, now,
                           user_id_by_session_id, users_made,
                           destroyed, carried, edVars, basicVars, dbVars, thrVars>>

PairUserIdForSessionId ==
    \E session_id \in Cookies :
        LET r == SessionExpAuth_user_id_for_session_id(
                     exp_data, session_duration, session_id, now)
            r_db == SessionDBAuth_user_id_for_session_id(
                        models, session_duration, session_id, now)
        IN  /\ exp_data' = r.data
            /\ models' = r_db.m
            /\ ret' = PairCall("user_id_for_session_id", session_id, r, r_db)
            /\ UNCHANGED <<auth_type, env, session_duration, now, uuids,
                           user_id_by_session_id, users_made,
                           issued, destroyed, carried, edVars, basicVars, dbVars, thrVars>>

PairDestroySession ==
    \E request \in Requests :
        LET r == SessionExpAuth_destroy_session(
                     exp_data, session_duration, request, now)
            r_db == SessionDBAuth_destroy_session(models, request)
        IN  /\ exp_data' = r.data
            /\ models' = r_db.m
            /\ ret' = PairCall("destroy_session", ReqArg(request), r, r_db)
            /\ UNCHANGED <<auth_type, env, session_duration, now, uuids,
                           user_id_by_session_id, users_made,
                           issued, destroyed, carried, edVars, basicVars, dbVars, thrVars>>

NextPair ==
    \/ PairCreateSession
    \/ PairUserIdForSessionId
    \/ PairDestroySession
    \/ Tick

SpecPair == InitPair /\ [][NextPair]_vars

\* -------------------------------------------- 0x01: BasicAuth.current_user
\* A str is held as the sequence of its code points; a value that is a str
\* or None is a record, as a request is.
NoStr == [is_none |-> TRUE, str |-> <<>>]
StrObj(text) == [is_none |-> FALSE, str |-> text]

\* "Basic " and "Bearer "
BasicPrefix == <<66, 97, 115, 105, 99, 32>>
BearerPrefix == <<66, 101, 97, 114, 101, 114, 32>>

\* the character class [A-Za-z0-9+/=]
InBase64Class(c) ==
    \/ c \in 65..90
    \/ c \in 97..122
    \/ c \in 48..57
    \/ c \in {43, 47, 61}

\* text without a line feed that ends it: what `$` lets a match stop before
BeforeFinalNewline(text) ==
    IF Len(text) > 0 /\ text[Len(text)] = 10
        THEN SubSeq(text, 1, Len(text) - 1)
        ELSE text

\* BasicAuth.extract_base64_authorization_header:
\* re.match(r"^Basic (?P<base64String>[A-Za-z0-9+/=]+)$", header)
extract_base64_authorization_header(authorization_header) ==
    IF authorization_header.is_none
        THEN NoStr
        ELSE LET h == authorization_header.str
                 n == Len(BasicPrefix)
                 rest == BeforeFinalNewline(SubSeq(h, n + 1, Len(h)))
             IN  IF /\ Len(h) > n
                    /\ SubSeq(h, 1, n) = BasicPrefix
                    /\ Len(rest) > 0
                    /\ \A i \in 1..Len(rest) : InBase64Class(rest[i])
                     THEN StrObj(rest)
                     ELSE NoStr

\* binascii's table_a2b_base64 on the characters of the base64 alphabet
B64Value(c) ==
    CASE c \in 65..90 -> c - 65
      [] c \in 97..122 -> c - 71
      [] c \in 48..57 -> c + 4
      [] c = 43 -> 62
      [] c = 47 -> 63

\* binascii.a2b_base64, not strict, from character i of text on: quad_pos
\* counts the characters of the quad read so far, pads the "=" that follow
\* them, leftchar holds the bits not yet written, out the bytes written.
RECURSIVE a2b_base64(_, _, _, _, _, _)
a2b_base64(text, i, quad_pos, pads, leftchar, out) ==
    IF i > Len(text)
        THEN IF quad_pos # 0 THEN Raised("binascii.Error")
                             ELSE Returned(out)
    ELSE IF text[i] = 61
        THEN IF quad_pos >= 2 /\ quad_pos + pads + 1 >= 4
                 THEN Returned(out)
                 ELSE a2b_base64(text, i + 1, quad_pos,
                                 IF quad_pos >= 2 THEN pads + 1 ELSE pads,
                                 leftchar, out)
    ELSE IF ~InBase64Class(text[i])
        THEN a2b_base64(text, i + 1, quad_pos, pads, leftchar, out)
    ELSE LET this_ch == B64Value(text[i])
         IN  CASE quad_pos = 0 ->
                      a2b_base64(text, i + 1, 1, 0, this_ch, out)
               [] quad_pos = 1 ->
                      a2b_base64(text, i + 1, 2, 0, this_ch % 16,
                          Append(out, leftchar * 4 + (this_ch \div 16)))
               [] quad_pos = 2 ->
                      a2b_base64(text, i + 1, 3, 0, this_ch % 4,
                          Append(out, leftchar * 16 + (this_ch \div 4)))
               [] quad_pos = 3 ->
                      a2b_base64(text, i + 1, 0, 0, 0,
                          Append(out, leftchar * 64 + this_ch))

\* base64.b64decode(s): the bytes, or binascii.Error
b64decode(text) == a2b_base64(text, 1, 0, 0, 0, <<>>)

\* byte j of b is there and lies in lo..hi
ByteIn(b, j, lo, hi) == j <= Len(b) /\ b[j] >= lo /\ b[j] <= hi

\* bytes.decode("utf-8") from byte i of b on: the code points, or
\* UnicodeDecodeError
RECURSIVE utf8_decode(_, _, _)
utf8_decode(b, i, out) ==
    IF i > Len(b) THEN Returned(out)
    ELSE IF b[i] < 128
        THEN utf8_decode(b, i + 1, Append(out, b[i]))
    ELSE IF /\ b[i] \in 194..223
            /\ ByteIn(b, i + 1, 128, 191)
        THEN utf8_decode(b, i + 2,
                 Append(out, (b[i] % 32) * 64 + (b[i + 1] % 64)))
    ELSE IF /\ b[i] \in 224..239
            /\ ByteIn(b, i + 1, IF b[i] = 224 THEN 160 ELSE 128,
                                IF b[i] = 237 THEN 159 ELSE 191)
            /\ ByteIn(b, i + 2, 128, 191)
        THEN utf8_decode(b, i + 3,
                 Append(out, (b[i] % 16) * 4096 + (b[i + 1] % 64) * 64
                             + (b[i + 2] % 64)))
    ELSE IF /\ b[i] \in 240..244
            /\ ByteIn(b, i + 1, IF b[i] = 240 THEN 144 ELSE 128,
                                IF b[i] = 244 THEN 143 ELSE 191)
            /\ ByteIn(b, i + 2, 128, 191)
            /\ ByteIn(b, i + 3, 128, 191)
        THEN utf8_decode(b, i + 4,
                 Append(out, (b[i] % 8) * 262144 + (b[i + 1] % 64) * 4096
                             + (b[i + 2] % 64) * 64 + (b[i + 3] % 64)))
    ELSE Raised("UnicodeDecodeError")

\* BasicAuth.decode_base64_authorization_header: val is a str or None, exc
\* the exception that leaves the method.  Only UnicodeDecodeError is caught.
decode_base64_authorization_header(base64_authorization_header) ==
    IF base64_authorization_header.is_none
        THEN Returned(NoStr)
        ELSE LET decoded_bytes == b64decode(base64_authorization_header.str)
             IN  IF decoded_bytes.exc # NoExc
                     THEN [val |-> NoStr, exc |-> decoded_bytes.exc]
                     ELSE LET text == utf8_decode(decoded_bytes.val, 1, <<>>)
                          IN  IF text.exc # NoExc
                                  THEN Returned(NoStr)
                                  ELSE Returned(StrObj(text.val))

\* BasicAuth.extract_user_credentials:
\* re.match(r"^(?P<username>[^:]+):(?P<password>.*)$", decoded)
extract_user_credentials(decoded_base64_authorization_header) ==
    IF decoded_base64_authorization_header.is_none
        THEN <<NoStr, NoStr>>
        ELSE LET d == decoded_base64_authorization_header.str
                 colons == {i \in 1..Len(d) : d[i] = 58}
             IN  IF colons = {}
                     THEN <<NoStr, NoStr>>
                     ELSE LET c == CHOOSE i \in colons :
                                       \A j \in colons : i <= j
                              password ==
                                  BeforeFinalNewline(SubSeq(d, c + 1, Len(d)))
                          IN  IF /\ c > 1
                                 /\ \A i \in 1..Len(password) :
                                        password[i] # 10
                                  THEN <<StrObj(SubSeq(d, 1, c - 1)),
                                         StrObj(password)>>
                                  ELSE <<NoStr, NoStr>>

\* User._encrypt_password: SHA-256, here a tagged copy
BasicEncryptPassword(pwd) == [sha256 |-> pwd]

\* a stored User of 0x01
BasicUser(id, email, pwd) ==
    [cls |-> "User", id |-> id, email |-> email,
     password |-> BasicEncryptPassword(pwd)]

\* User.is_valid_password
is_valid_password(user, pwd) ==
    IF pwd.is_none \/ pwd.str = <<>>
        THEN FALSE
        ELSE BasicEncryptPassword(pwd.str) = user.password

\* User.search({"email": user_email}): the stored users of that email
BasicSearch(users, user_email) ==
    SelectSeq(users, LAMBDA u : u.email = user_email)

\* BasicAuth.user_object_from_credentials
user_object_from_credentials(stored, user_email, user_pwd) ==
    IF user_email.is_none \/ user_pwd.is_none
        THEN NoneObj
        ELSE LET users == BasicSearch(stored, user_email.str)
             IN  IF users = <<>>
                     THEN NoneObj
                     ELSE IF ~is_valid_password(users[1], user_pwd)
                              THEN NoneObj
                              ELSE users[1]

\* a request of 0x01: None, or its Authorization header, a str or None
NoBasicRequest == [is_none |-> TRUE, authorization |-> NoStr]
BasicRequest(header) == [is_none |-> FALSE, authorization |-> header]

\* `not text` of a value that is a str or None
FalsyStr(text) == text.is_none \/ text.str = <<>>

\* BasicAuth.current_user
BasicAuth_current_user(stored, request) ==
    IF request.is_none THEN Returned(NoneObj)
    ELSE IF FalsyStr(request.authorization) THEN Returned(NoneObj)
    ELSE LET b64 == extract_base64_authorization_header(
                        request.authorization)
         IN  IF FalsyStr(b64) THEN Returned(NoneObj)
             ELSE LET decoded == decode_base64_authorization_header(b64)
                  IN  IF decoded.exc # NoExc
                          THEN [val |-> NoneObj, exc |-> decoded.exc]
                      ELSE IF FalsyStr(decoded.val) THEN Returned(NoneObj)
                      ELSE LET cred == extract_user_credentials(decoded.val)
                           IN  IF cred[1].is_none \/ cred[2].is_none
                                   THEN Returned(NoneObj)
                                   ELSE Returned(
                                       user_object_from_credentials(
                                           stored, cred[1], cred[2]))

\* the characters a header carries after its scheme: Y j p w =
\* ("Yjpw" is "b:p", "Yjpp" is "b:i", "Yjp=" is "b:", "Yw==" is "c",
\* "jj==" is the byte 0x8e, "Y" is no base64)
PayloadChars == {89, 106, 112, 119, 61}

RECURSIVE SeqsUpTo(_, _)
SeqsUpTo(chars, n) ==
    IF n = 0 THEN {<<>>}
    ELSE LET shorter == SeqsUpTo(chars, n - 1)
         IN  shorter \cup {Append(q, c) : q \in shorter, c \in chars}

Payloads == SeqsUpTo(PayloadChars, MaxPayload)

BasicHeaders ==
    {NoStr, StrObj(<<>>)}
        \cup {StrObj(scheme \o payload) :
                  scheme \in {BasicPrefix, BearerPrefix},
                  payload \in Payloads}

BasicRequests == {NoBasicRequest} \cup {BasicRequest(h) : h \in BasicHeaders}

\* the user stores: none, or one user "b" of password "p"
BasicStores == {<<>>, <<BasicUser("user-1", <<98>>, <<112>>)>>}

InitBasic ==
    /\ auth_type = "basic_auth"
    /\ env = Unset
    /\ session_duration = 0
    /\ now = 0
    /\ uuids = 0
    /\ user_id_by_session_id = EmptyDict
    /\ exp_data = EmptyDict
    /\ models = EmptyModels
    /\ ret = [op |-> "start", arg |-> NoBasicRequest, val |-> NoneObj,
              exc |-> NoExc]
    /\ users_made = 0
    /\ issued = EmptyDict
    /\ destroyed = {}
    /\ carried = {}
    /\ ed_cls = "session_exp_auth"
    /\ ed_expiration = 0
    /\ ed_data = EmptyDict
    /\ ed_set = EmptyDict
    /\ basic_users \in BasicStores
    /\ db_users = <<>>
    /\ reset_tokens = EmptyDict
    /\ db_class = NoDb
    /\ threads = NoCalls

BasicCurrentUser ==
    \E request \in BasicRequests :
        /\ ret' = Call("current_user", request,
                       BasicAuth_current_user(basic_users, request))
        /\ UNCHANGED <<appVars, edVars, basicVars, dbVars, thrVars, now>>

NextBasic == BasicCurrentUser

SpecBasic == InitBasic /\ [][NextBasic]_vars

\* ------------------------------------ 0x03: Auth and DB, the users table
\* A row of the users table; a column that is NULL holds None.  The integer
\* primary key is written as its decimal text.
RowId(k) == ToString(k)

\* _hash_password: bcrypt, here a tagged copy
hash_password(password) == "bcrypt(" \o password \o ")"

\* the mutant of _generate_uuid: every call hands out the same identifier
generate_uuid_again(n) == uuid4(0)

\* _generate_uuid
generate_uuid(n) == uuid4(n)

\* DB.add_user: the table with the new row, and the row
add_user(table, email, hashed_password) ==
    LET user == [id |-> RowId(Len(table) + 1), email |-> email,
                 hashed_password |-> hashed_password,
                 session_id |-> None, reset_token |-> None]
    IN  [val |-> user, exc |-> NoExc, table |-> Append(table, user)]

\* DB.find_user_by(**{column: value}): query.one() raises NoResultFound for
\* no row and MultipleResultsFound, an InvalidRequestError, for several
find_user_by(table, column, value) ==
    LET rows == SelectSeq(table, LAMBDA u : u[column] = value)
    IN  IF Len(rows) = 0 THEN [val |-> NoneObj, exc |-> "NoResultFound"]
        ELSE IF Len(rows) > 1
            THEN [val |-> NoneObj, exc |-> "InvalidRequestError"]
        ELSE [val |-> rows[1], exc |-> NoExc]

\* DB.update_user(user_id, **updates)
update_user(table, user_id, updates) ==
    LET user == find_user_by(table, "id", user_id)
    IN  IF user.exc # NoExc
            THEN [val |-> None, exc |-> user.exc, table |-> table]
            ELSE [val |-> None, exc |-> NoExc,
                  table |-> [i \in 1..Len(table) |->
                      IF table[i].id = user_id
                          THEN [c \in DOMAIN table[i] |->
                                   IF c \in DOMAIN updates THEN updates[c]
                                   ELSE table[i][c]]
                          ELSE table[i]]]

\* the mutant of Auth.register_user: the email is not looked up first
Auth_register_user_unchecked(table, email, password) ==
    add_user(table, email, hash_password(password))

\* Auth.register_user
Auth_register_user(table, email, password) ==
    LET found == find_user_by(table, "email", email)
    IN  IF found.exc = "NoResultFound"
            THEN add_user(table, email, hash_password(password))
        ELSE IF found.exc # NoExc
            THEN [val |-> NoneObj, exc |-> found.exc, table |-> table]
        ELSE [val |-> NoneObj, exc |-> "ValueError", table |-> table]

\* Auth.create_session
Auth_create_session(table, email, n) ==
    LET user == find_user_by(table, "email", email)
        updated == update_user(table, user.val.id,
                               [session_id |-> generate_uuid(n)])
    IN  IF user.exc = "NoResultFound"
            THEN [val |-> None, exc |-> NoExc, table |-> table, drawn |-> 0]
        ELSE IF user.exc # NoExc
            THEN [val |-> None, exc |-> user.exc, table |-> table,
                  drawn |-> 0]
        ELSE IF updated.exc = "NoResultFound"
            THEN [val |-> None, exc |-> NoExc, table |-> table, drawn |-> 1]
        ELSE IF updated.exc # NoExc
            THEN [val |-> None, exc |-> updated.exc, table |-> table,
                  drawn |-> 1]
        ELSE [val |-> generate_uuid(n), exc |-> NoExc,
              table |-> updated.table, drawn |-> 1]

\* Auth.get_user_from_session_id
Auth_get_user_from_session_id(table, session_id) ==
    LET user == find_user_by(table, "session_id", session_id)
    IN  IF Falsy(session_id) THEN Returned(NoneObj)
        ELSE IF user.exc = "NoResultFound" THEN Returned(NoneObj)
        ELSE user

\* the mutant of Auth.destroy_session: the session id is left in the row
Auth_destroy_session_kept(table, user_id) ==
    [val |-> None, exc |-> NoExc, table |-> table]

\* Auth.destroy_session
Auth_destroy_session(table, user_id) ==
    IF user_id = None
        THEN [val |-> None, exc |-> NoExc, table |-> table]
        ELSE update_user(table, user_id, [session_id |-> None])

DbEmails == {"a@x.io", "b@x.io"}

\* the ids a caller passes to destroy_session
DbUserIdArgs == {None} \cup {RowId(k) : k \in 1..MaxDbUsers}

InitAuth ==
    /\ auth_type = "auth"
    /\ env = Unset
    /\ session_duration = 0
    /\ now = 0
    /\ uuids = 0
    /\ user_id_by_session_id = EmptyDict
    /\ exp_data = EmptyDict
    /\ models = EmptyModels
    /\ ret = [op |-> "start", arg |-> None, val |-> None, exc |-> NoExc]
    /\ users_made = 0
    /\ issued = EmptyDict
    /\ destroyed = {}
    /\ carried = {}
    /\ ed_cls = "session_exp_auth"
    /\ ed_expiration = 0
    /\ ed_data = EmptyDict
    /\ ed_set = EmptyDict
    /\ basic_users = <<>>
    /\ db_users = <<>>
    /\ reset_tokens = EmptyDict
    /\ db_class = NoDb
    /\ threads = NoCalls

\* what an action of Auth on sessions leaves alone besides uuids, issued,
\* destroyed and db_users
authRest == <<auth_type, env, session_duration, user_id_by_session_id,
              exp_data, models, users_made, carried,
              edVars, basicVars, thrVars, now, reset_tokens, db_class>>

\* history: the session ids create_session returned for the email
IssuedTo(email) == {s \in DOMAIN issued : issued[s].user_id = email}

\* history: the session ids create_session returned for the email of the
\* user of that id
IssuedToUser(table, user_id) ==
    UNION {IssuedTo(table[i].email) :
               i \in {j \in 1..Len(table) : table[j].id = user_id}}

AuthRegisterUser ==
    \E email \in DbEmails, password \in Passwords :
        LET r == Auth_register_user(db_users, email, password)
        IN  /\ Len(db_users) < MaxDbUsers
            /\ db_users' = r.table
            /\ ret' = [op |-> "register_user", arg |-> email,
                       val |-> r.val.id, exc |-> r.exc]
            /\ UNCHANGED <<authRest, uuids, issued, destroyed>>

AuthCreateSession ==
    \E email \in DbEmails :
        LET r == Auth_create_session(db_users, email, uuids)
        IN  /\ uuids < MaxDbSessions
            /\ db_users' = r.table
            /\ uuids' = uuids + r.drawn
            /\ ret' = Call("create_session", email, r)
            /\ issued' = IF r.exc = NoExc /\ r.val # None
                            THEN DictSet(issued, r.val,
                                         [user_id |-> email, at |-> now])
                            ELSE issued
            /\ destroyed' = IF r.exc = NoExc /\ r.val # None
                               THEN destroyed \cup IssuedTo(email)
                               ELSE destroyed
            /\ UNCHANGED authRest

AuthGetUserFromSessionId ==
    \E session_id \in Cookies :
        LET r == Auth_get_user_from_session_id(db_users, session_id)
        IN  /\ ret' = [op |-> "get_user_from_session_id",
                       arg |-> session_id, val |-> r.val.id, exc |-> r.exc]
            /\ UNCHANGED <<authRest, uuids, issued, destroyed, dbVars>>

AuthDestroySession ==
    \E user_id \in DbUserIdArgs :
        LET r == Auth_destroy_session(db_users, user_id)
        IN  /\ db_users' = r.table
            /\ ret' = Call("destroy_session", user_id, r)
            /\ destroyed' = destroyed \cup IssuedToUser(db_users, user_id)
            /\ UNCHANGED <<authRest, uuids, issued>>

NextAuth ==
    \/ AuthRegisterUser
    \/ AuthCreateSession
    \/ AuthGetUserFromSessionId
    \/ AuthDestroySession

SpecAuth == InitAuth /\ [][NextAuth]_vars

\* ------------------------------------------- 0x03: resetting a password

\* Auth.get_reset_password_token
Auth_get_reset_password_token(table, email, n) ==
    LET user == find_user_by(table, "email", email)
        updated == update_user(table, user.val.id,
                               [reset_token |-> generate_uuid(n)])
    IN  IF user.exc = "NoResultFound"
            THEN [val |-> None, exc |-> "ValueError", table |-> table,
                  drawn |-> 0]
        ELSE IF user.exc # NoExc
            THEN [val |-> None, exc |-> user.exc, table |-> table,
                  drawn |-> 0]
        ELSE IF updated.exc # NoExc
            THEN [val |-> None, exc |-> updated.exc, table |-> table,
                  drawn |-> 1]
        ELSE [val |-> generate_uuid(n), exc |-> NoExc,
              table |-> updated.table, drawn |-> 1]

\* the mutant of Auth.update_password: the reset also closes the sessions of
\* the user
Auth_update_password_logout(table, reset_token, password) ==
    LET user == find_user_by(table, "reset_token", reset_token)
        updated == update_user(table, user.val.id,
                               [hashed_password |-> hash_password(password),
                                reset_token |-> None, session_id |-> None])
    IN  IF user.exc = "NoResultFound"
            THEN [val |-> None, exc |-> "ValueError", table |-> table]
        ELSE IF user.exc # NoExc
            THEN [val |-> None, exc |-> user.exc, table |-> table]
        ELSE updated

\* Auth.update_password
Auth_update_password(table, reset_token, password) ==
    LET user == find_user_by(table, "reset_token", reset_token)
        updated == update_user(table, user.val.id,
                               [hashed_password |-> hash_password(password),
                                reset_token |-> None])
    IN  IF user.exc = "NoResultFound"
            THEN [val |-> None, exc |-> "ValueError", table |-> table]
        ELSE IF user.exc # NoExc
            THEN [val |-> None, exc |-> user.exc, table |-> table]
        ELSE updated

\* the passwords a user is registered with or changes to
NewPasswords == {"pw", "pw2"}

\* the tokens a caller passes to update_password: none, the empty one, one
\* never handed out, and every identifier handed out so far
TokenArgs == {None, "", "never-issued"} \cup {uuid4(k) : k \in 0..(uuids - 1)}

\* what an action on reset tokens leaves alone besides uuids, db_users and
\* reset_tokens
resetRest == <<auth_type, env, session_duration, user_id_by_session_id,
               exp_data, models, users_made, issued, destroyed, carried,
               edVars, basicVars, thrVars, now, db_class>>

ResetRegisterUser ==
    \E email \in DbEmails, password \in Passwords :
        LET r == Auth_register_user(db_users, email, password)
        IN  /\ Len(db_users) < MaxDbUsers
            /\ db_users' = r.table
            /\ ret' = [op |-> "register_user", arg |-> email,
                       val |-> r.val.id, exc |-> r.exc]
            /\ UNCHANGED <<resetRest, uuids, reset_tokens>>

AuthGetResetPasswordToken ==
    \E email \in DbEmails :
        LET r == Auth_get_reset_password_token(db_users, email, uuids)
        IN  /\ uuids < MaxDbSessions
            /\ db_users' = r.table
            /\ uuids' = uuids + r.drawn
            /\ ret' = Call("get_reset_password_token", email, r)
            /\ reset_tokens' =
                   IF r.exc = NoExc
                       THEN LET kept == {t \in DOMAIN reset_tokens :
                                            reset_tokens[t] # email}
                            IN  DictSet([t \in kept |-> reset_tokens[t]],
                                        r.val, email)
                       ELSE reset_tokens
            /\ UNCHANGED resetRest

AuthUpdatePassword ==
    \E reset_token \in TokenArgs, password \in NewPasswords :
        LET r == Auth_update_password(db_users, reset_token, password)
        IN  /\ db_users' = r.table
            /\ ret' = [op |-> "update_password", arg |-> reset_token,
                       password |-> password, val |-> r.val, exc |-> r.exc]
            /\ reset_tokens' =
                   [t \in DOMAIN reset_tokens \ {reset_token} |->
                       reset_tokens[t]]
            /\ UNCHANGED <<resetRest, uuids>>

NextReset ==
    \/ ResetRegisterUser
    \/ AuthGetResetPasswordToken
    \/ AuthUpdatePassword

SpecReset == InitAuth /\ [][NextReset]_vars

\* ------------------------------------------ the session stores, all four
\* The process runs one of the three authenticators of 0x02, or the Auth of
\* 0x03.
InitStores == Init \/ InitAuth

NextStores ==
    \/ (auth_type \in AuthTypes /\ Next)
    \/ (auth_type = "auth" /\ NextAuth)

SpecStores == InitStores /\ [][NextStores]_vars

\* ------------------------------------- destroy_session, thread by thread
\* Each thread serves one request at a time.  A call of destroy_session
\* reads the store in one step and deletes from it in a later one; steps of
\* other threads may fall between the two.

\* the store of the authenticator holds session s
Stored(s) ==
    CASE auth_type = "session_auth" -> s \in DOMAIN user_id_by_session_id
      [] auth_type = "session_exp_auth" -> s \in DOMAIN exp_data
      [] auth_type = "session_db_auth" ->
            \E i \in 1..Len(ClsStorage(models, "UserSession")) :
                ClsStorage(models, "UserSession")[i].session_id = s

\* thread t ends its call with result r
Done(t, r) ==
    [threads EXCEPT ![t].pc = "done", ![t].val = r.val, ![t].exc = r.exc]

\* destroy_session up to its read of the store: the tests of the request
\* and of the cookie that SessionAuth makes and SessionDBAuth does not
ThreadBegin(t) ==
    \E request \in Requests :
        LET session_id == session_cookie(request)
            call == [threads[t] EXCEPT !.request = request,
                                       !.live = Stored(session_id)]
        IN  /\ threads[t].pc = "idle"
            /\ threads' =
                   IF /\ auth_type # "session_db_auth"
                      /\ (request.is_none \/ Falsy(session_id))
                       THEN [threads EXCEPT ![t] =
                                [call EXCEPT !.pc = "done",
                                             !.val = PyFalse]]
                       ELSE [threads EXCEPT ![t] =
                                [call EXCEPT !.pc = "lookup"]]
            /\ UNCHANGED <<appVars, edVars, basicVars, dbVars, now, ret>>

\* user_id = self.user_id_for_session_id(session_id), or, in SessionDBAuth,
\* sessions.first()
ThreadLookup(t) ==
    LET session_id == session_cookie(threads[t].request)
        looked == user_id_for_session_id(
                      auth_type, user_id_by_session_id, exp_data, models,
                      session_duration, session_id, now)
        found == first(search(models, "UserSession", "session_id",
                              session_id))
    IN  /\ threads[t].pc = "lookup"
        /\ IF auth_type = "session_db_auth"
               THEN /\ threads' =
                          IF found = NoneObj
                              THEN Done(t, Raised("AttributeError"))
                              ELSE [threads EXCEPT ![t].pc = "delete",
                                                   ![t].found = found]
                    /\ UNCHANGED exp_data
               ELSE /\ threads' =
                          IF Falsy(looked.val)
                              THEN Done(t, Returned(PyFalse))
                              ELSE [threads EXCEPT ![t].pc = "delete"]
                    /\ exp_data' = looked.data
        /\ UNCHANGED <<auth_type, env, session_duration, uuids,
                       user_id_by_session_id, models, users_made, issued,
                       destroyed, carried, edVars, basicVars, dbVars, now,
                       ret>>

\* del self.user_id_by_session_id[session_id], or, in SessionDBAuth,
\* the remove() of the record found
ThreadDelete(t) ==
    LET session_id == session_cookie(threads[t].request)
        deleted == ExpDelItem(exp_data, session_id)
    IN  /\ threads[t].pc = "delete"
        /\ CASE auth_type = "session_auth" ->
                    /\ user_id_by_session_id' =
                           IF session_id \in DOMAIN user_id_by_session_id
                               THEN DictDel(user_id_by_session_id, session_id)
                               ELSE user_id_by_session_id
                    /\ threads' =
                           IF session_id \in DOMAIN user_id_by_session_id
                               THEN Done(t, Returned(PyTrue))
                               ELSE Done(t, Raised("KeyError"))
                    /\ UNCHANGED <<exp_data, models>>
             [] auth_type = "session_exp_auth" ->
                    /\ exp_data' = deleted.data
                    /\ threads' =
                           IF deleted.exc = NoExc
                               THEN Done(t, Returned(PyTrue))
                               ELSE Done(t, Raised(deleted.exc))
                    /\ UNCHANGED <<user_id_by_session_id, models>>
             [] auth_type = "session_db_auth" ->
                    /\ models' = remove(models, threads[t].found)
                    /\ threads' = Done(t, Returned(PyTrue))
                    /\ UNCHANGED <<user_id_by_session_id, exp_data>>
        /\ UNCHANGED <<auth_type, env, session_duration, uuids, users_made,
                       issued, destroyed, carried, edVars, basicVars, dbVars,
                       now, ret>>

\* the call returns or raises to its caller
ThreadReturn(t) ==
    /\ threads[t].pc = "done"
    /\ ret' = [op |-> "destroy_session",
               arg |-> ReqArg(threads[t].request),
               val |-> threads[t].val, exc |-> threads[t].exc]
    /\ threads' = [threads EXCEPT ![t] = Idle]
    /\ UNCHANGED <<appVars, edVars, basicVars, dbVars, now>>

NextThreads ==
    \/ CreateSession
    \/ \E t \in Threads : ThreadBegin(t)
    \/ \E t \in Threads : ThreadLookup(t)
    \/ \E t \in Threads : ThreadDelete(t)
    \/ \E t \in Threads : ThreadReturn(t)

SpecThreads == Init /\ [][NextThreads]_vars

\* ------------------------------------------------------ Auth.require_auth
\* The method is the same in 0x01 and 0x02.  A str is the sequence of its
\* code points: "/" is 47, "*" is 42, a line feed is 10.

\* a value that is a list of str, or None
NoList == [is_none |-> TRUE, list |-> <<>>]
ListObj(items) == [is_none |-> FALSE, list |-> items]

\* the mutant of NormalizedPath: the path is left as it came
NormalizedPathAsIs(path) == path

\* normalized_path = path if path.endswith('/') else path + '/'
NormalizedPath(path) ==
    IF Len(path) > 0 /\ path[Len(path)] = 47 THEN path
    ELSE Append(path, 47)

\* r'/?$' at the end of the regex: at most one "/", then the end of the text
\* or the line feed that ends it
AtEnd(rest) == rest \in {<<>>, <<47>>, <<10>>, <<47, 10>>}

\* re.match(regex_pattern + r'/?$', text) from character i of the pattern
\* and character j of the text on: re.escape makes every character but "*"
\* stand for itself, and "*", turned into ".*", stands for any run of
\* characters that are not line feeds
RECURSIVE ReMatch(_, _, _, _)
ReMatch(pattern, i, text, j) ==
    IF i > Len(pattern)
        THEN AtEnd(SubSeq(text, j, Len(text)))
    ELSE IF pattern[i] = 42
        THEN \E k \in j..(Len(text) + 1) :
                 /\ \A n \in j..(k - 1) : text[n] # 10
                 /\ ReMatch(pattern, i + 1, text, k)
    ELSE /\ j <= Len(text)
         /\ text[j] = pattern[i]
         /\ ReMatch(pattern, i + 1, text, j + 1)

\* the mutant of require_auth: an empty path is not turned away
require_auth_any_path(path, excluded_paths) ==
    IF path.is_none \/ excluded_paths.is_none
        THEN Returned(PyTrue)
    ELSE IF \E i \in 1..Len(excluded_paths.list) :
                ReMatch(excluded_paths.list[i], 1,
                        NormalizedPath(path.str), 1)
        THEN Returned(PyFalse)
    ELSE Returned(PyTrue)

\* Auth.require_auth
require_auth(path, excluded_paths) ==
    IF FalsyStr(path)
           \/ excluded_paths.is_none \/ excluded_paths.list = <<>>
        THEN Returned(PyTrue)
    ELSE IF \E i \in 1..Len(excluded_paths.list) :
                ReMatch(excluded_paths.list[i], 1,
                        NormalizedPath(path.str), 1)
        THEN Returned(PyFalse)
    ELSE Returned(PyTrue)

\* the characters of a path: / p x and the line feed
PathChars == {47, 112, 120, 10}

\* the characters of a pattern: / p *
PatternChars == {47, 112, 42}

RaPaths == {NoStr} \cup {StrObj(q) : q \in SeqsUpTo(PathChars, MaxPath)}

RaPatterns == SeqsUpTo(PatternChars, MaxPattern)

\* the lists of patterns: None, the empty list, one pattern, or two of at
\* most one character
RaExcluded ==
    {NoList, ListObj(<<>>)}
        \cup {ListObj(<<p>>) : p \in RaPatterns}
        \cup {ListObj(<<p, q>>) :
                  p \in SeqsUpTo(PatternChars, MaxPattern - 3),
                  q \in SeqsUpTo(PatternChars, MaxPattern - 3)}

\* a call of require_auth is about to be made
InitRequireAuth ==
    /\ auth_type = "auth"
    /\ env = Unset
    /\ session_duration = 0
    /\ now = 0
    /\ uuids = 0
    /\ user_id_by_session_id = EmptyDict
    /\ exp_data = EmptyDict
    /\ models = EmptyModels
    /\ \E path \in RaPaths, excluded_paths \in RaExcluded :
           ret = [op |-> "call",
                  arg |-> [path |-> path, excluded_paths |-> excluded_paths],
                  val |-> None, exc |-> NoExc]
    /\ users_made = 0
    /\ issued = EmptyDict
    /\ destroyed = {}
    /\ carried = {}
    /\ ed_cls = "session_exp_auth"
    /\ ed_expiration = 0
    /\ ed_data = EmptyDict
    /\ ed_set = EmptyDict
    /\ basic_users = <<>>
    /\ db_users = <<>>
    /\ reset_tokens = EmptyDict
    /\ db_class = NoDb
    /\ threads = NoCalls

RequireAuth ==
    /\ ret.op = "call"
    /\ ret' = Call("require_auth", ret.arg,
                   require_auth(ret.arg.path, ret.arg.excluded_paths))
    /\ UNCHANGED <<appVars, edVars, basicVars, dbVars, thrVars, now>>

SpecRequireAuth == InitRequireAuth /\ [][RequireAuth]_vars

\* ------------------------------------------- the start of the 0x02 application
\* app.py imports the views and the factory provider, asks the provider for
\* the factory that config.AUTH_TYPE names and keeps the authenticator the
\* factory creates as app.auth.

\* the names utils.py defines
UtilsNames == {"override", "encrypt_sha256", "parse_int_str", "ExpiringDict"}

\* the names auth_factory.py defines
AuthFactoryNames ==
    {"AuthFactory", "BasicAuthFactory", "SessionAuthFactory",
     "SessionExpAuthFactory"}

\* `from module import names`: a name the module does not define is an
\* ImportError
ImportFrom(defined, names) ==
    IF names \subseteq defined THEN Returned(None) ELSE Raised("ImportError")

\* models/user.py: from utils import encrypt_password
ImportModelsUser == ImportFrom(UtilsNames, {"encrypt_password"})

\* auth_factory_provider.py: from api.v1.auth.auth_factory import ...
ImportAuthFactoryProvider ==
    ImportFrom(AuthFactoryNames,
               {"BasicAuthFactory", "SessionAuthFactory",
                "SessionExpAuthFactory", "SessionDBAuthFactory",
                "AuthFactory"})

\* DefaultAuthFactoryProvider.FACTORY_MAP
FACTORY_MAP ==
    [key \in {"basic_auth", "session_auth", "session_exp_auth",
              "session_db_auth"} |->
        CASE key = "basic_auth" -> "BasicAuthFactory"
          [] key = "session_auth" -> "SessionAuthFactory"
          [] key = "session_exp_auth" -> "SessionExpAuthFactory"
          [] key = "session_db_auth" -> "SessionDBAuthFactory"]

\* DefaultAuthFactoryProvider.get_factory
get_factory(key) ==
    IF key \in DOMAIN FACTORY_MAP THEN Returned(FACTORY_MAP[key])
    ELSE Raised("ValueError")

\* AuthFactory.create_auth of each factory
create_auth(factory) ==
    CASE factory = "BasicAuthFactory" -> "BasicAuth"
      [] factory = "SessionAuthFactory" -> "SessionAuth"
      [] factory = "SessionExpAuthFactory" -> "SessionExpAuth"
      [] factory = "SessionDBAuthFactory" -> "SessionDBAuth"

\* Config.AUTH_TYPE = os.getenv('AUTH_TYPE', 'basic_auth')
AUTH_TYPE(environ) == IF environ = Unset THEN "basic_auth" ELSE environ

\* app.py up to `app.auth = auth_factory.create_auth()`: what app.auth is
\* set to, or the exception that ends the start
StartApp(environ) ==
    IF ImportModelsUser.exc # NoExc THEN ImportModelsUser
    ELSE IF ImportAuthFactoryProvider.exc # NoExc
        THEN ImportAuthFactoryProvider
    ELSE LET factory == get_factory(AUTH_TYPE(environ))
         IN  IF factory.exc # NoExc THEN factory
             ELSE Returned(create_auth(factory.val))

\* the values of the environment variable AUTH_TYPE: unset, the four
\* registered keys, and keys that are not registered
AuthTypeEnvs ==
    {Unset} \cup
    {a \o b :
        a \in {"", "basic", "session", "session_exp", "session_db",
               "Session", "BASIC", "oauth", "jwt"},
        b \in {"", "_auth", "_AUTH", "-auth", "auth", "_auth ", "_Auth"}}

InitStartApp ==
    /\ auth_type = "app"
    /\ env = Unset
    /\ session_duration = 0
    /\ now = 0
    /\ uuids = 0
    /\ user_id_by_session_id = EmptyDict
    /\ exp_data = EmptyDict
    /\ models = EmptyModels
    /\ \E environ \in AuthTypeEnvs :
           ret = [op |-> "call", arg |-> environ,
                  val |-> None, exc |-> NoExc]
    /\ users_made = 0
    /\ issued = EmptyDict
    /\ destroyed = {}
    /\ carried = {}
    /\ ed_cls = "session_exp_auth"
    /\ ed_expiration = 0
    /\ ed_data = EmptyDict
    /\ ed_set = EmptyDict
    /\ basic_users = <<>>
    /\ db_users = <<>>
    /\ reset_tokens = EmptyDict
    /\ db_class = NoDb
    /\ threads = NoCalls

StartTheApp ==
    /\ ret.op = "call"
    /\ ret' = Call("start", ret.arg, StartApp(ret.arg))
    /\ UNCHANGED <<appVars, edVars, basicVars, dbVars, thrVars, now>>

SpecStartApp == InitStartApp /\ [][StartTheApp]_vars

\* --------------------------------- the before_request hook of the 0x02 app
\* A request the hook sees has a path, an Authorization header (None when it
\* has none) and a session cookie (None when it has none).
HookRequest(path, authorization, cookie) ==
    [is_none |-> FALSE, path |-> path,
     authorization |-> authorization, cookie |-> cookie]

\* Auth.authorization_header
authorization_header(request) ==
    IF request.is_none THEN None ELSE request.authorization

\* app.EXCLUDED_PATHS: '/api/v1/status/', '/api/v1/auth_session/login/',
\* '/api/v1/unauthorized/' and '/api/v1/forbidden/'
EXCLUDED_PATHS ==
    ListObj(<<
        <<47, 97, 112, 105, 47, 118, 49, 47, 115, 116, 97, 116, 117,
        115, 47>>,
        <<47, 97, 112, 105, 47, 118, 49, 47, 97, 117, 116, 104, 95, 115,
        101, 115, 115, 105, 111, 110, 47, 108, 111, 103, 105, 110, 47>>,
        <<47, 97, 112, 105, 47, 118, 49, 47, 117, 110, 97, 117, 116,
        104, 111, 114, 105, 122, 101, 100, 47>>,
        <<47, 97, 112, 105, 47, 118, 49, 47, 102, 111, 114, 98, 105,
        100, 100, 101, 110, 47>>
    >>)

\* '/api/v1/status'
StatusNoSlash ==
    <<47, 97, 112, 105, 47, 118, 49, 47, 115, 116, 97, 116, 117, 115>>

\* '/api/v1/users/me'
UsersMe ==
    <<47, 97, 112, 105, 47, 118, 49, 47, 117, 115, 101, 114, 115, 47, 109,
    101>>

\* '/api/v1/auth_session/logout'
LogoutPath ==
    <<47, 97, 112, 105, 47, 118, 49, 47, 97, 117, 116, 104, 95, 115, 101,
    115, 115, 105, 111, 110, 47, 108, 111, 103, 111, 117, 116>>

\* auth.require_auth(request.path, EXCLUDED_PATHS) for the paths requests
\* carry here, worked out once for each path
RequestPaths == {StatusNoSlash, UsersMe, LogoutPath}
RequiresAuth ==
    [path \in RequestPaths |-> require_auth(StrObj(path), EXCLUDED_PATHS)]

\* app.handle_authentication: the hook returns and the request goes on to its
\* handler, or abort(401) raises Unauthorized, or abort(403) raises Forbidden,
\* or the exception of current_user goes through
handle_authentication(auth, store, data, m, duration, request, t) ==
    IF RequiresAuth[request.path].val = PyFalse
        THEN [val |-> None, exc |-> NoExc,
              store |-> store, data |-> data, m |-> m]
    ELSE IF Falsy(authorization_header(request))
                /\ Falsy(session_cookie(request))
        THEN [val |-> None, exc |-> "Unauthorized",
              store |-> store, data |-> data, m |-> m]
    ELSE LET user == current_user(auth, store, data, m, duration,
                                  request, t)
         IN  IF user.exc # NoExc THEN user
             ELSE IF Falsy(user.val)
                 THEN [user EXCEPT !.val = None, !.exc = "Forbidden"]
             ELSE [user EXCEPT !.val = None]

\* the requests that come in
HookPaths == {StatusNoSlash, UsersMe}
Authorizations == {None, "Basic Yjpw"}
HookRequests ==
    {HookRequest(path, authorization, cookie) :
         path \in HookPaths, authorization \in Authorizations,
         cookie \in Cookies}

HandleAuthentication ==
    \E request \in HookRequests :
        LET r == handle_authentication(
                     auth_type, user_id_by_session_id, exp_data, models,
                     session_duration, request, now)
        IN  /\ user_id_by_session_id' = r.store
            /\ exp_data' = r.data
            /\ models' = r.m
            /\ ret' = Call("handle_authentication", request, r)
            /\ UNCHANGED <<users_made, auth_type, env, session_duration, now,
                           uuids, issued, destroyed, carried,
                           edVars, basicVars, dbVars, thrVars>>

\* the application with its users, its sessions and the requests the hook
\* sees
NextHook ==
    \/ CreateUser
    \/ DeleteUser
    \/ CreateSessionOfUser
    \/ HandleAuthentication
    \/ Tick

SpecHook == InitUsers /\ [][NextHook]_vars

\* --------------------------------- SessionDBAuth over a file that may fail
\* the last call, with whether the file could be written and whether the
\* call came to write it
IoCall(op, arg, ok, r) ==
    [op |-> op, arg |-> arg, ok |-> ok, wrote |-> r.wrote,
     val |-> r.val, exc |-> r.exc]

InitIo == InitUsers /\ auth_type = "session_db_auth"

IoCreateSession ==
    \E user_id \in ArgUserIds, ok \in BOOLEAN :
        LET r == SessionDBAuth_create_session_io(models, user_id, uuids,
                                                 now, ok)
        IN  /\ Cardinality(DOMAIN issued) < MaxSessions
            /\ uuids < 2 * MaxSessions
            /\ models' = r.m
            /\ uuids' = uuids + r.drawn
            /\ ret' = IoCall("create_session", user_id, ok, r)
            /\ issued' = IF r.exc = NoExc /\ r.val # None
                            THEN DictSet(issued, r.val,
                                         [user_id |-> user_id, at |-> now])
                            ELSE issued
            /\ UNCHANGED <<users_made, auth_type, env, session_duration, now,
                           user_id_by_session_id, exp_data, destroyed,
                           carried, edVars, basicVars, dbVars, thrVars>>

IoUserIdForSessionId ==
    \E session_id \in Cookies, ok \in BOOLEAN :
        LET r == SessionDBAuth_user_id_for_session_id_io(
                     models, session_duration, session_id, now, ok)
        IN  /\ models' = r.m
            /\ ret' = IoCall("user_id_for_session_id", session_id, ok, r)
            /\ UNCHANGED <<users_made, auth_type, env, session_duration, now,
                           uuids, user_id_by_session_id, exp_data, issued,
                           destroyed, carried, edVars, basicVars, dbVars,
                           thrVars>>

IoDestroySession ==
    \E request \in Requests, ok \in BOOLEAN :
        LET r == SessionDBAuth_destroy_session_io(models, request, ok)
        IN  /\ models' = r.m
            /\ ret' = IoCall("destroy_session", ReqArg(request), ok, r)
            /\ destroyed' = IF r.exc = NoExc /\ r.val = PyTrue
                               THEN destroyed \cup {session_cookie(request)}
                               ELSE destroyed
            /\ UNCHANGED <<users_made, auth_type, env, session_duration, now,
                           uuids, user_id_by_session_id, exp_data, issued,
                           carried, edVars, basicVars, dbVars, thrVars>>

NextIo ==
    \/ IoCreateSession
    \/ IoUserIdForSessionId
    \/ IoDestroySession
    \/ Tick

SpecIo == InitIo /\ [][NextIo]_vars

\* ------------------------------------------- 0x03: DB(), from two threads
\* A thread that calls DB() takes DB._lock, tests DB._instance, creates and
\* initialises the instance when there is none, gives the lock back and
\* returns DB._instance.  val of the thread is what its call returned.

\* the mutant of LockFree: DB.__new__ without `with cls._lock`
LockFreeAlways(cls) == TRUE

\* DB._lock can be taken
LockFree(cls) == cls.lock = None

At(t, pc) == threads[t].pc = pc
Goto(t, pc) == threads' = [threads EXCEPT ![t].pc = pc]

\* what a step of DB.__new__ leaves alone besides threads and db_class
newRest == <<appVars, edVars, basicVars, now, ret, reset_tokens>>

\* with cls._lock:
DbAcquire(t) ==
    /\ At(t, "idle")
    /\ LockFree(db_class)
    /\ db_class' = [db_class EXCEPT !.lock = t]
    /\ Goto(t, "locked")
    /\ UNCHANGED <<newRest, db_users>>

\* if not cls._instance:
DbTest(t) ==
    /\ At(t, "locked")
    /\ Goto(t, IF db_class.instance = None THEN "create" ELSE "release")
    /\ UNCHANGED <<newRest, db_users, db_class>>

\* cls._instance = super().__new__(cls)
DbCreate(t) ==
    /\ At(t, "create")
    /\ db_class' = [db_class EXCEPT
                       !.instance = "DB#" \o ToString(db_class.made + 1),
                       !.made = db_class.made + 1]
    /\ Goto(t, "initialize")
    /\ UNCHANGED <<newRest, db_users>>

\* cls._instance.__initialize(uri): _initialize_db drops the tables and
\* creates them again
DbInitialize(t) ==
    /\ At(t, "initialize")
    /\ db_class' = [db_class EXCEPT !.inits = db_class.inits + 1]
    /\ db_users' = <<>>
    /\ Goto(t, "release")
    /\ UNCHANGED newRest

\* the end of the with block
DbRelease(t) ==
    /\ At(t, "release")
    /\ db_class' = [db_class EXCEPT !.lock = None]
    /\ Goto(t, "return")
    /\ UNCHANGED <<newRest, db_users>>

\* return cls._instance
DbReturn(t) ==
    /\ At(t, "return")
    /\ threads' = [threads EXCEPT ![t].pc = "done",
                                  ![t].val = db_class.instance]
    /\ UNCHANGED <<newRest, db_users, db_class>>

\* the thread goes on to add a user through the instance it holds
DbAddUser(t) ==
    \E email \in DbEmails, password \in Passwords :
        LET r == add_user(db_users, email, hash_password(password))
        IN  /\ At(t, "done")
            /\ Len(db_users) < MaxDbUsers
            /\ db_users' = r.table
            /\ ret' = [op |-> "add_user", arg |-> email,
                       val |-> r.val.id, exc |-> r.exc]
            /\ UNCHANGED <<appVars, edVars, basicVars, now, reset_tokens,
                           db_class, threads>>

\* the thread calls DB() once more
DbAgain(t) ==
    /\ At(t, "done")
    /\ Goto(t, "idle")
    /\ UNCHANGED <<newRest, db_users, db_class>>

NextNew ==
    \E t \in Threads :
        \/ DbAcquire(t)
        \/ DbTest(t)
        \/ DbCreate(t)
        \/ DbInitialize(t)
        \/ DbRelease(t)
        \/ DbReturn(t)
        \/ DbAddUser(t)
        \/ DbAgain(t)

SpecNew == InitAuth /\ [][NextNew]_vars

\* ------------------------------ views/session_auth.py: login and logout
\* request.cookies.get(SESSION_NAME) and the two fields of request.form
LoginRequest(cookie, email, password) ==
    [is_none |-> FALSE, cookie |-> cookie,
     email |-> email, password |-> password]

\* what a view hands back: the status of the response, the error of its
\* body, the value of the session cookie it sets (None when it sets none),
\* or the exception that went through it
Response(status, error, cookie, r) ==
    [val |-> status, error |-> error, cookie |-> cookie, exc |-> NoExc,
     drawn |-> 0, store |-> r.store, data |-> r.data, m |-> r.m]

\* User.is_valid_password (0x02)
User_is_valid_password(user, pwd) ==
    IF ~IsStr(pwd) \/ Falsy(pwd) \/ Falsy(user.password)
        THEN FALSE
        ELSE encrypt_password(pwd) = user.password

\* `not user.is_valid_password(password)` of session_login
PasswordRefused(user, pwd) == ~User_is_valid_password(user, pwd)

\* F of the value of v, v worked out once
With(v, F(_)) == CHOOSE out \in {F(x) : x \in {v}} : TRUE

\* a view left by an exception: the answer is a 500
Failed(r, drawn) ==
    [val |-> "500", error |-> None, cookie |-> None, exc |-> r.exc,
     drawn |-> drawn, store |-> r.store, data |-> r.data, m |-> r.m]

\* a store no lookup has touched
AsIs(store, data, m) ==
    [val |-> None, exc |-> NoExc, store |-> store, data |-> data, m |-> m]

\* session_login from line 88 on: the session of the user and the answer
\* that carries its cookie
session_login_user(auth, look, user, n, t) ==
    With(create_session(auth, look.store, look.data, look.m, user.id, n, t),
         LAMBDA made :
            IF made.exc # NoExc
                THEN Failed(made, made.drawn)
                ELSE [val |-> "200", error |-> None, cookie |-> made.val,
                      exc |-> NoExc, drawn |-> made.drawn,
                      store |-> made.store, data |-> made.data,
                      m |-> made.m])

\* views.session_auth.session_login; app.auth is always one of the session
\* authenticators here, so the 501 branch is not taken
session_login(auth, store, data, m, duration, request, n, t) ==
    LET session_id == request.cookie
        email == request.email
        password == request.password
    IN  With(IF Falsy(session_id) THEN AsIs(store, data, m)
             ELSE user_id_for_session_id(auth, store, data, m, duration,
                                         session_id, t),
             LAMBDA look :
        IF look.exc # NoExc
            THEN Failed(look, 0)
        ELSE IF ~Falsy(session_id) /\ ~Falsy(look.val)
            THEN Response("400", "User already logged in", None, look)
        ELSE IF Falsy(email)
            THEN Response("400", "email missing", None, look)
        ELSE IF Falsy(password)
            THEN Response("400", "password missing", None, look)
        ELSE With(first(search(look.m, "User", "email", email)),
                  LAMBDA user :
            IF user = NoneObj
                THEN Response("404", "no user found for this email", None,
                              look)
            ELSE IF PasswordRefused(user, password)
                THEN Response("401", "wrong password", None, look)
            ELSE session_login_user(auth, look, user, n, t)))

\* the mutant of session_logout: the view answers 200 for a live session and
\* leaves it in the store
session_logout_kept(auth, store, data, m, duration, request, t) ==
    LET session_id == request.cookie
    IN  With(IF Falsy(session_id) THEN AsIs(store, data, m)
             ELSE user_id_for_session_id(auth, store, data, m, duration,
                                         session_id, t),
             LAMBDA look :
        IF look.exc # NoExc
            THEN Failed(look, 0)
        ELSE IF Falsy(session_id) \/ Falsy(look.val)
            THEN Response("404", "No active session found", None, look)
        ELSE Response("200", None, None, look))

\* views.session_auth.session_logout, the view alone
session_logout(auth, store, data, m, duration, request, t) ==
    LET session_id == request.cookie
    IN  With(IF Falsy(session_id) THEN AsIs(store, data, m)
             ELSE user_id_for_session_id(auth, store, data, m, duration,
                                         session_id, t),
             LAMBDA look :
        IF look.exc # NoExc
            THEN Failed(look, 0)
        ELSE IF Falsy(session_id) \/ Falsy(look.val)
            THEN Response("404", "No active session found", None, look)
        ELSE With(destroy_session(auth, look.store, look.data, look.m,
                                  duration, request, t),
                  LAMBDA gone :
            IF gone.exc # NoExc
                THEN Failed(gone, 0)
            ELSE IF Falsy(gone.val)
                THEN Response("404", None, None, gone)
            ELSE Response("200", None, None, gone)))

\* DELETE /api/v1/auth_session/logout as the application serves it: the
\* before_request hook first, whose abort or exception ends the request, then
\* the view
logout(auth, store, data, m, duration, request, t) ==
    With(handle_authentication(auth, store, data, m, duration, request, t),
         LAMBDA hook :
        IF hook.exc = "Unauthorized"
            THEN Response("401", "Unauthorized", None, hook)
        ELSE IF hook.exc = "Forbidden"
            THEN Response("403", "Forbidden", None, hook)
        ELSE IF hook.exc # NoExc
            THEN Failed(hook, 0)
        ELSE session_logout(auth, hook.store, hook.data, hook.m, duration,
                            request, t))

\* the credentials a form may carry: no email, no password, an email no user
\* has, a wrong password, and those of the stored user
LoginForms ==
    {<<None, "pw">>, <<"a@x.io", None>>, <<"b@x.io", "pw">>,
     <<"a@x.io", "bad">>, <<"a@x.io", "pw">>}
LoginRequests ==
    {LoginRequest(cookie, form[1], form[2]) :
         cookie \in Cookies, form \in LoginForms}

\* the last request served by a view
ViewCall(op, request, r) ==
    [op |-> op, arg |-> request, val |-> r.val, error |-> r.error,
     cookie |-> r.cookie, exc |-> r.exc]

\* POST /api/v1/auth_session/login: the path is excluded, so the hook lets
\* every such request through to the view
SessionLogin ==
    \E request \in LoginRequests :
        \E r \in {session_login(auth_type, user_id_by_session_id, exp_data,
                                models, session_duration, request, uuids,
                                now)} :
            /\ r.drawn = 0 \/ Cardinality(DOMAIN issued) < MaxSessions
            /\ user_id_by_session_id' = r.store
            /\ exp_data' = r.data
            /\ models' = r.m
            /\ uuids' = uuids + r.drawn
            /\ ret' = ViewCall("session_login", request, r)
            /\ issued' = IF r.exc = NoExc /\ r.cookie # None
                            THEN DictSet(issued, r.cookie,
                                         [user_id |-> first(search(
                                              models, "User", "email",
                                              request.email)).id,
                                          at |-> now])
                            ELSE issued
            /\ UNCHANGED <<users_made, auth_type, env, session_duration, now,
                           destroyed, carried, edVars, basicVars, dbVars,
                           thrVars>>

\* DELETE /api/v1/auth_session/logout
SessionLogout ==
    \E cookie \in Cookies, authorization \in Authorizations :
        \E request \in {HookRequest(LogoutPath, authorization, cookie)} :
        \E r \in {logout(auth_type, user_id_by_session_id, exp_data, models,
                         session_duration, request, now)} :
            /\ user_id_by_session_id' = r.store
            /\ exp_data' = r.data
            /\ models' = r.m
            /\ ret' = ViewCall("session_logout", request, r)
            /\ destroyed' = IF r.exc = NoExc /\ r.val = "200"
                                THEN destroyed \cup {cookie}
                                ELSE destroyed
            /\ UNCHANGED <<users_made, auth_type, env, session_duration, now,
                           uuids, issued, carried, edVars, basicVars, dbVars,
                           thrVars>>

\* the application with its users, the login and logout views and the
\* requests the hook sees
NextViews ==
    \/ CreateUser
    \/ SessionLogin
    \/ SessionLogout
    \/ HandleAuthentication
    \/ Tick

SpecViews == InitUsers /\ [][NextViews]_vars

\* ------------------------------- BasicAuth over headers a client encodes
\* the base64 alphabet, by value
B64Char(v) ==
    CASE v \in 0..25 -> v + 65
      [] v \in 26..51 -> v + 71
      [] v \in 52..61 -> v - 4
      [] v = 62 -> 43
      [] v = 63 -> 47

\* base64.b64encode of the bytes b from byte i on: three bytes make four
\* characters, the last one or two bytes are padded with "="
RECURSIVE b64encode(_, _)
b64encode(b, i) ==
    IF i > Len(b) THEN <<>>
    ELSE IF i = Len(b)
        THEN <<B64Char(b[i] \div 4), B64Char((b[i] % 4) * 16), 61, 61>>
    ELSE IF i + 1 = Len(b)
        THEN <<B64Char(b[i] \div 4),
               B64Char((b[i] % 4) * 16 + b[i + 1] \div 16),
               B64Char((b[i + 1] % 16) * 4), 61>>
    ELSE <<B64Char(b[i] \div 4),
           B64Char((b[i] % 4) * 16 + b[i + 1] \div 16),
           B64Char((b[i + 1] % 16) * 4 + b[i + 2] \div 64),
           B64Char(b[i + 2] % 64)>> \o b64encode(b, i + 3)

\* the characters of the texts a client encodes: b p : and the line feed
TextChars == {98, 112, 58, 10}
Texts == SeqsUpTo(TextChars, MaxText)

\* BasicAuth.current_user of a request whose Authorization header is "Basic "
\* and the base64 of a text; the text is ASCII, so its UTF-8 bytes are its
\* code points
BasicCurrentUserOfText ==
    \E text \in Texts :
        \E request \in {BasicRequest(StrObj(BasicPrefix
                                            \o b64encode(text, 1)))} :
        \E r \in {BasicAuth_current_user(basic_users, request)} :
            /\ ret' = [op |-> "current_user_of", arg |-> request,
                       text |-> text, val |-> r.val, exc |-> r.exc]
            /\ UNCHANGED <<appVars, edVars, basicVars, dbVars, thrVars, now>>

NextBasicText == BasicCurrentUserOfText

SpecBasicText == InitBasic /\ [][NextBasicText]_vars

\* --------------------------- 0x03: Auth.register_user, from two threads
\* Each thread calls register_user once.  The call looks the email up
\* (auth.py line 98) and, when find_user_by raised NoResultFound, adds the
\* user (lines 100-102); each of the two is a transaction of its own on the
\* thread's session, and no lock is held from one to the other.

\* what a step of register_user leaves alone besides threads and db_users
registerRest == <<appVars, edVars, basicVars, now, ret, reset_tokens,
                  db_class>>

\* AUTH.register_user(email, password) is called
RegisterUserBegin(t) ==
    \E email \in DbEmails, password \in NewPasswords :
        /\ At(t, "idle")
        /\ threads' = [threads EXCEPT
                          ![t].pc = "find",
                          ![t].request = [email |-> email,
                                          password |-> password]]
        /\ UNCHANGED <<registerRest, db_users>>

\* self._db.find_user_by(email=email): ValueError when a row is found, on to
\* add_user when NoResultFound was raised, any other exception goes through
RegisterUserFind(t) ==
    /\ At(t, "find")
    /\ \E found \in {find_user_by(db_users, "email",
                                  threads[t].request.email)} :
        /\ threads' = [threads EXCEPT
                          ![t].pc = IF found.exc = "NoResultFound"
                                        THEN "add" ELSE "done",
                          ![t].exc = IF found.exc = "NoResultFound"
                                         THEN NoExc
                                     ELSE IF found.exc # NoExc
                                         THEN found.exc
                                     ELSE "ValueError"]
        /\ UNCHANGED <<registerRest, db_users>>

\* return self._db.add_user(email=email, hashed_password=...)
RegisterUserAdd(t) ==
    /\ At(t, "add")
    /\ \E r \in {add_user(db_users, threads[t].request.email,
                          hash_password(threads[t].request.password))} :
        /\ db_users' = r.table
        /\ threads' = [threads EXCEPT ![t].pc = "done",
                                      ![t].val = r.val.id,
                                      ![t].exc = r.exc]
        /\ UNCHANGED registerRest

NextRegister ==
    \E t \in Threads :
        \/ RegisterUserBegin(t)
        \/ RegisterUserFind(t)
        \/ RegisterUserAdd(t)

SpecRegister == InitAuth /\ [][NextRegister]_vars

\* -------------------- an ExpiringDict (session_exp_auth), from two threads
\* Each thread reads, writes or deletes the key "k1" of one ExpiringDict.  A
\* step is a statement of the method that reads or writes _data: another
\* thread may run between a test of `key in self._data` and the statement
\* that relies on it.  In this part ed_set[key] is the set of the values set
\* for the key so far.
EdKey == "k1"
EdHeld == EdKey \in DOMAIN ed_data

\* what a step of a thread leaves alone besides threads, ed_data and ed_set
edThreadRest == <<appVars, basicVars, dbVars, ed_cls, ed_expiration, now,
                  ret>>

\* the thread stops at pc, or ends with a value or an exception
EdGoto(t, pc) == threads' = [threads EXCEPT ![t].pc = pc]
EdDone(t, val, exc) ==
    threads' = [threads EXCEPT ![t].pc = "done", ![t].val = val,
                               ![t].exc = exc]

\* a thread calls d[key], d[key] = value or del d[key]
EdThreadBegin(t) ==
    \E op \in {"getitem", "setitem", "delitem"}, value \in EdValues :
        /\ At(t, "idle")
        /\ op # "setitem" => value = "v1"
        /\ threads' = [threads EXCEPT
                          ![t].pc = op,
                          ![t].request = [op |-> op, value |-> value],
                          ![t].val = None, ![t].exc = NoExc]
        /\ UNCHANGED <<edThreadRest, ed_data, ed_set>>

\* __setitem__, line 144
EdThreadSetItem(t) ==
    /\ At(t, "setitem")
    /\ ed_data' = ExpSetItem(ed_data, EdKey, threads[t].request.value, now)
    /\ ed_set' = DictSet(ed_set, EdKey,
                         (IF EdKey \in DOMAIN ed_set THEN ed_set[EdKey]
                          ELSE {}) \cup {threads[t].request.value})
    /\ EdDone(t, None, NoExc)
    /\ UNCHANGED edThreadRest

\* __getitem__, line 113: if key not in self._data: return None
EdThreadGetContains(t) ==
    /\ At(t, "getitem")
    /\ IF EdHeld THEN EdGoto(t, "get_read") ELSE EdDone(t, None, NoExc)
    /\ UNCHANGED <<edThreadRest, ed_data, ed_set>>

\* __getitem__, lines 117-125: value = self._data[key], and the first test
\* of _is_valid, line 201
EdThreadGetRead(t) ==
    /\ At(t, "get_read")
    /\ IF ~EdHeld THEN EdDone(t, None, "KeyError")
       ELSE threads' = [threads EXCEPT
                           ![t].found = ed_data[EdKey],
                           ![t].pc = IF ed_expiration <= 0
                                         THEN "get_return"
                                         ELSE "valid_contains"]
    /\ UNCHANGED <<edThreadRest, ed_data, ed_set>>

\* _is_valid, line 204: if key not in self._data: return False
EdThreadValidContains(t) ==
    /\ At(t, "valid_contains")
    /\ EdGoto(t, IF EdHeld THEN "valid_read" ELSE "expire_contains")
    /\ UNCHANGED <<edThreadRest, ed_data, ed_set>>

\* _is_valid, lines 207-215: value = self._data[key] and the comparison
EdThreadValidRead(t) ==
    /\ At(t, "valid_read")
    /\ IF ~EdHeld THEN EdDone(t, None, "KeyError")
       ELSE EdGoto(t, IF ExpIsValid(ed_data, ed_expiration, EdKey, now)
                          THEN "get_return" ELSE "expire_contains")
    /\ UNCHANGED <<edThreadRest, ed_data, ed_set>>

\* _expire_key, line 137: if key in self._data
EdThreadExpireContains(t) ==
    /\ At(t, "expire_contains")
    /\ IF EdHeld THEN EdGoto(t, "expire_del") ELSE EdDone(t, None, NoExc)
    /\ UNCHANGED <<edThreadRest, ed_data, ed_set>>

\* _expire_key, line 138: del self._data[key]; __getitem__ returns None
EdThreadExpireDel(t) ==
    /\ At(t, "expire_del")
    /\ IF EdHeld
           THEN ed_data' = DictDel(ed_data, EdKey) /\ EdDone(t, None, NoExc)
           ELSE ed_data' = ed_data /\ EdDone(t, None, "KeyError")
    /\ UNCHANGED <<edThreadRest, ed_set>>

\* __getitem__, line 131: return value['value']
EdThreadGetReturn(t) ==
    /\ At(t, "get_return")
    /\ EdDone(t, threads[t].found.value, NoExc)
    /\ UNCHANGED <<edThreadRest, ed_data, ed_set>>

\* __delitem__, lines 150 and 153: if key in self._data, else KeyError
EdThreadDelContains(t) ==
    /\ At(t, "delitem")
    /\ IF EdHeld THEN EdGoto(t, "del_del") ELSE EdDone(t, None, "KeyError")
    /\ UNCHANGED <<edThreadRest, ed_data, ed_set>>

\* __delitem__, line 151: del self._data[key]
EdThreadDelDel(t) ==
    /\ At(t, "del_del")
    /\ IF EdHeld
           THEN ed_data' = DictDel(ed_data, EdKey) /\ EdDone(t, None, NoExc)
           ELSE ed_data' = ed_data /\ EdDone(t, None, "KeyError")
    /\ UNCHANGED <<edThreadRest, ed_set>>

\* the call is over and the thread may call again
EdThreadReturn(t) ==
    /\ At(t, "done")
    /\ threads' = [threads EXCEPT ![t] = Idle]
    /\ UNCHANGED <<edThreadRest, ed_data, ed_set>>

InitEdThreads == InitExpiringDict /\ ed_cls = "session_exp_auth"

NextEdThreads ==
    \/ \E t \in Threads :
        \/ EdThreadBegin(t)
        \/ EdThreadSetItem(t)
        \/ EdThreadGetContains(t)
        \/ EdThreadGetRead(t)
        \/ EdThreadValidContains(t)
        \/ EdThreadValidRead(t)
        \/ EdThreadExpireContains(t)
        \/ EdThreadExpireDel(t)
        \/ EdThreadGetReturn(t)
        \/ EdThreadDelContains(t)
        \/ EdThreadDelDel(t)
        \/ EdThreadReturn(t)
    \/ EdTick

SpecEdThreads == InitEdThreads /\ [][NextEdThreads]_vars

\* ------------------------------- two authenticators built in one process
\* Two instances "a" and "b" of the class AUTH_TYPE names.  A plain
\* SessionAuth has no user_id_by_session_id of its own, so both read and
\* write the class-level dict.  SessionExpAuth.__init__ binds a new
\* ExpiringDict to the instance: exp_data is the _data of a's and ed_data the
\* _data of b's.
Instances == {"a", "b"}

\* the mutant of InstanceStore: the ExpiringDict of the first instance serves
\* every instance
InstanceStoreShared(inst, of_a, of_b) == of_a

\* self.user_id_by_session_id of a SessionExpAuth instance
InstanceStore(inst, of_a, of_b) == IF inst = "a" THEN of_a ELSE of_b

InitInstances ==
    /\ InitUsers
    /\ auth_type \in {"session_auth", "session_exp_auth"}

\* the last call, with the instance it was made through
InstCall(op, inst, arg, r) ==
    [op |-> op, inst |-> inst, arg |-> arg, val |-> r.val, exc |-> r.exc]

\* what a call through an instance leaves alone besides the stores, uuids,
\* issued, destroyed and ret
instRest == <<users_made, auth_type, env, session_duration, now, models,
              carried, ed_cls, ed_expiration, ed_set, basicVars, dbVars,
              thrVars>>

\* the stores after a call through inst that left store and data
InstStores(inst, r) ==
    /\ user_id_by_session_id' = r.store
    /\ exp_data' = IF inst = "a" THEN r.data ELSE exp_data
    /\ ed_data' = IF inst = "b" THEN r.data ELSE ed_data

InstCreateSession ==
    \E inst \in Instances, user_id \in {"bob", "eve"} :
        \E r \in {create_session(auth_type, user_id_by_session_id,
                                 InstanceStore(inst, exp_data, ed_data),
                                 models, user_id, uuids, now)} :
            /\ Cardinality(DOMAIN issued) < MaxSessions
            /\ InstStores(inst, r)
            /\ uuids' = uuids + r.drawn
            /\ ret' = InstCall("create_session", inst, user_id, r)
            /\ issued' = DictSet(issued, r.val,
                                 [user_id |-> user_id, at |-> now,
                                  by |-> inst])
            /\ UNCHANGED <<instRest, destroyed>>

InstUserIdForSessionId ==
    \E inst \in Instances, session_id \in Cookies :
        \E r \in {user_id_for_session_id(
                      auth_type, user_id_by_session_id,
                      InstanceStore(inst, exp_data, ed_data), models,
                      session_duration, session_id, now)} :
            /\ InstStores(inst, r)
            /\ ret' = InstCall("user_id_for_session_id", inst, session_id, r)
            /\ UNCHANGED <<instRest, uuids, issued, destroyed>>

InstDestroySession ==
    \E inst \in Instances, request \in Requests :
        \E r \in {destroy_session(
                      auth_type, user_id_by_session_id,
                      InstanceStore(inst, exp_data, ed_data), models,
                      session_duration, request, now)} :
            /\ InstStores(inst, r)
            /\ ret' = InstCall("destroy_session", inst, ReqArg(request), r)
            /\ destroyed' = IF r.exc = NoExc /\ r.val = PyTrue
                                THEN destroyed \cup {session_cookie(request)}
                                ELSE destroyed
            /\ UNCHANGED <<instRest, uuids, issued>>

NextInstances ==
    \/ InstCreateSession
    \/ InstUserIdForSessionId
    \/ InstDestroySession
    \/ Tick

SpecInstances == InitInstances /\ [][NextInstances]_vars

\* ------------------------------ 0x03: a password reset with sessions open
\* The calls on sessions and the calls on reset tokens of one Auth, in any
\* order.
NextResetSessions ==
    \/ ResetRegisterUser
    \/ AuthCreateSession
    \/ AuthGetUserFromSessionId
    \/ AuthGetResetPasswordToken
    \/ AuthUpdatePassword

SpecResetSessions == InitAuth /\ [][NextResetSessions]_vars

\* ================================================================ claims

\* a user id create_session must accept: a non-empty string
ValidUserId(u) == IsStr(u) /\ u # ""

\* session s, opened at issued[s].at, is past the session duration
Expired(s) ==
    /\ session_duration > 0
    /\ now > issued[s].at + session_duration * TicksPerSecond

\* the authenticator keeps its sessions in this process's memory alone
InMemory == auth_type \in {"session_auth", "session_exp_auth"}

\* the session stores of the three authenticators
stores == <<user_id_by_session_id, exp_data, models>>

C1_Step ==
    /\ (ret'.op = "create_session" /\ ValidUserId(ret'.arg))
            => /\ ret'.exc = NoExc
               /\ ret'.val # None
               /\ ret'.val \notin DOMAIN issued
    /\ (/\ ret.op = "create_session" /\ ValidUserId(ret.arg)
        /\ ret.val # None
        /\ ret'.op = "user_id_for_session_id" /\ ret'.arg = ret.val)
            => /\ ret'.exc = NoExc
               /\ ret'.val = ret.arg

\* C1: create_session(u), u a non-empty string, returns a session id no
\* earlier create_session returned, and user_id_for_session_id of that id,
\* called next with no time elapsed, returns u.
C1_FreshIdThatResolves == [][C1_Step]_vars

\* C2: once destroy_session returned True for the session cookie s,
\* user_id_for_session_id(s) returns None in every later state.
C2_DestroyedNeverResolves ==
    (ret.op = "user_id_for_session_id" /\ ret.arg \in destroyed)
        => (ret.exc = NoExc /\ ret.val = None)

C3_Step ==
    (ret'.op = "destroy_session"
        /\ ret'.arg \in {"never-issued"} \cup destroyed)
        => /\ ret'.exc = NoExc
           /\ ret'.val = PyFalse
           /\ UNCHANGED stores

\* C3: destroy_session on a request whose cookie names a session id never
\* issued or already destroyed returns False, raises nothing and leaves the
\* session store unchanged.
C3_DestroyUnknownIsFalse == [][C3_Step]_vars

\* C5: with a session duration of 0 or less, user_id_for_session_id of
\* SessionExpAuth and SessionDBAuth returns the stored user id of a session
\* of this process for as long as the session is not destroyed, whatever
\* time has passed.
C5_NoExpiryWithoutTtl ==
    (/\ auth_type \in {"session_exp_auth", "session_db_auth"}
     /\ session_duration <= 0
     /\ ret.op = "user_id_for_session_id"
     /\ ret.arg \in DOMAIN issued
     /\ ret.arg \notin destroyed
     /\ ret.arg \notin carried)
        => (ret.exc = NoExc /\ ret.val = issued[ret.arg].user_id)

\* C6: a SessionDBAuth session neither expired nor destroyed resolves to its
\* user after the process restarted.
C6_SurvivesRestart ==
    (/\ auth_type = "session_db_auth"
     /\ ret.op = "user_id_for_session_id"
     /\ ret.arg \in carried
     /\ ret.arg \notin destroyed
     /\ ~Expired(ret.arg))
        => (ret.exc = NoExc /\ ret.val = issued[ret.arg].user_id)

C8_Step ==
    (ret'.op = "create_session" /\ ~ValidUserId(ret'.arg))
        => /\ ret'.exc = NoExc
           /\ ret'.val = None
           /\ UNCHANGED stores

\* C8: create_session returns None and stores no session when user_id is
\* None, the empty string or not a string.
C8_InvalidUserIdRefused == [][C8_Step]_vars

\* C7: given the same calls at the same times, without a restart,
\* SessionExpAuth and SessionDBAuth return the same results.
C7_SameContract ==
    ret.op \in {"create_session", "user_id_for_session_id", "destroy_session"}
        => (ret.val = ret.val_db /\ ret.exc = ret.exc_db)

\* the cookie names no session that is live
NoLiveSession(c) ==
    \/ c \in {None, "<no request>", "", "never-issued"}
    \/ c \in destroyed
    \/ (c \in DOMAIN issued /\ Expired(c))

\* the cookie names a session of a user that is stored no more
UserGone(c) ==
    c \in DOMAIN issued /\ issued[c].user_id \notin UserIds(models)

\* C9: current_user and user_id_for_session_id never raise, and yield None
\* for a request without a session cookie, for a cookie naming a session
\* never issued, destroyed or expired, and (current_user) for a session
\* whose user no longer exists.
C9_LookupsNeverRaise ==
    ret.op \in {"user_id_for_session_id", "current_user"}
        => /\ ret.exc = NoExc
           /\ NoLiveSession(ret.arg) => ret.val = None
           /\ (ret.op = "current_user" /\ UserGone(ret.arg))
                => ret.val = None

\* the last call read key k of d: d[k] or d.get(k, ...)
EdRead(r) == r.op \in {"getitem", "get"}

\* k, last set at ed_set[k].at, is past its time to live at time t
EdPastBound(k, t) ==
    t > ed_set[k].at + ed_expiration * TicksPerSecond

C10_BasicNeverRaises ==
    ret.op = "current_user"
        => /\ ret.exc = NoExc
           /\ \/ ret.val = NoneObj
              \/ \E i \in 1..Len(basic_users) : ret.val = basic_users[i]

\* the outcome, in the state before the call, of the call named op on a
\* session id that was never issued
OnUnknown(op) ==
    CASE op = "user_id_for_session_id" ->
            user_id_for_session_id(
                auth_type, user_id_by_session_id, exp_data, models,
                session_duration, "never-issued", now)
      [] op = "current_user" ->
            current_user(
                auth_type, user_id_by_session_id, exp_data, models,
                session_duration, Request("never-issued"), now)
      [] op = "destroy_session" ->
            destroy_session(
                auth_type, user_id_by_session_id, exp_data, models,
                session_duration, Request("never-issued"), now)

C11_Step ==
    (/\ ret'.op \in {"user_id_for_session_id", "current_user",
                     "destroy_session"}
     /\ auth_type \in {"session_exp_auth", "session_db_auth"}
     /\ ret'.arg \in DOMAIN issued
     /\ Expired(ret'.arg))
        => /\ ret'.val = OnUnknown(ret'.op).val
           /\ ret'.exc = OnUnknown(ret'.op).exc

\* C11: for SessionExpAuth and SessionDBAuth, user_id_for_session_id,
\* current_user and destroy_session give for an expired session id the
\* outcome they give for a session id that was never issued.
C11_ExpiredAsUnknown == [][C11_Step]_vars

\* the storage of UserSession holds a record of session s
InStorage(m, s) ==
    \E i \in 1..Len(ClsStorage(m, "UserSession")) :
        ClsStorage(m, "UserSession")[i].session_id = s

\* the file of UserSession holds a record of session s
InFile(m, s) ==
    \E i \in 1..Len(m.file_UserSession.objs) :
        m.file_UserSession.objs[i].session_id = s

C12_Step ==
    (/\ ret'.op = "user_id_for_session_id"
     /\ auth_type = "session_db_auth"
     /\ ret'.arg \in DOMAIN issued
     /\ InStorage(models, ret'.arg))
        => IF Expired(ret'.arg)
               THEN /\ ret'.exc = NoExc
                    /\ ret'.val = None
                    /\ ~InStorage(models', ret'.arg)
                    /\ ~InFile(models', ret'.arg)
               ELSE InStorage(models', ret'.arg)

\* C12: SessionDBAuth.user_id_for_session_id on an expired session removes
\* the UserSession record from storage, in memory and in the file, and
\* returns None; on a session that is not expired it leaves the record.
C12_ExpiredRecordRemoved == [][C12_Step]_vars

\* the stored UserSession records
UserSessionRecords ==
    SelectSeq(ClsStorage(models, "UserSession"),
              LAMBDA o : o.session_id # NoAttr)

\* C13: in every session store a session id is associated with at most one
\* user: the SessionAuth dict and the SessionExpAuth ExpiringDict hold under
\* an id the one user the id was issued to, no two UserSession records of
\* different users carry the same session id, and no two rows of the users
\* table of 0x03 carry the same session id.
C13_OneUserPerSessionId ==
    /\ \A s \in DOMAIN user_id_by_session_id :
           s \in DOMAIN issued
               /\ user_id_by_session_id[s] = issued[s].user_id
    /\ \A s \in DOMAIN exp_data :
           s \in DOMAIN issued
               /\ exp_data[s].value.user_id = issued[s].user_id
    /\ \A i, j \in 1..Len(UserSessionRecords) :
           UserSessionRecords[i].session_id = UserSessionRecords[j].session_id
               => UserSessionRecords[i].user_id = UserSessionRecords[j].user_id
    /\ \A i, j \in 1..Len(db_users) :
           (/\ db_users[i].session_id # None
            /\ db_users[i].session_id = db_users[j].session_id)
               => i = j

\* C13 witness: two users of 0x03 hold a session each.
C13_Witness ==
    /\ Len(db_users) = 2
    /\ db_users[1].session_id # None
    /\ db_users[2].session_id # None

\* two calls of destroy_session that both began while the session their
\* cookie names was stored, and both have ended
BothDestroyed(t, u) ==
    /\ t # u
    /\ threads[t].pc = "done"
    /\ threads[u].pc = "done"
    /\ threads[t].live
    /\ threads[u].live
    /\ session_cookie(threads[t].request) = session_cookie(threads[u].request)

\* C14: when two destroy_session calls for the same live session id run
\* concurrently, exactly one returns True, the other returns False, and
\* neither raises.
C14_OneDestroyWins ==
    \A t, u \in Threads :
        BothDestroyed(t, u)
            => /\ threads[t].exc = NoExc
               /\ threads[u].exc = NoExc
               /\ {threads[t].val, threads[u].val} = {PyTrue, PyFalse}

\* C15: require_auth(path, excluded_paths) returns True whenever path is
\* None or empty or excluded_paths is None or empty.
C15_FailSecure ==
    (/\ ret.op = "require_auth"
     /\ \/ ret.arg.path.is_none
        \/ ret.arg.path.str = <<>>
        \/ ret.arg.excluded_paths.is_none
        \/ ret.arg.excluded_paths.list = <<>>)
        => (ret.exc = NoExc /\ ret.val = PyTrue)

\* C15 witness: require_auth was called with the empty path and a list that
\* holds the empty pattern, and returned True.
C15_Witness ==
    /\ ret.op = "require_auth"
    /\ ret.arg.path = StrObj(<<>>)
    /\ ret.arg.excluded_paths = ListObj(<< <<>> >>)
    /\ ret.val = PyTrue

\* a str without the "/" characters that end it
RECURSIVE WithoutTrailingSlashes(_)
WithoutTrailingSlashes(s) ==
    IF Len(s) > 0 /\ s[Len(s)] = 47
        THEN WithoutTrailingSlashes(SubSeq(s, 1, Len(s) - 1))
    ELSE s

HasStar(pattern) == \E i \in 1..Len(pattern) : pattern[i] = 42

\* "/p", "/p/" and "/x/" stand for '/api/v1/status', '/api/v1/status/' and
\* '/api/v1/users/'
StatusPath == <<47, 112>>
StatusSlashPath == <<47, 112, 47>>
UsersSlashPath == <<47, 120, 47>>

\* C16: require_auth ignores a missing trailing slash on the path: a
\* non-empty path that does not end in "/" gets the answer of the same path
\* with "/" appended, whatever the list; a list of patterns without "*"
\* excludes a path only if one of them equals the path once trailing slashes
\* are removed from both; and the list of the one pattern "/p/" excludes
\* "/p" and "/p/" and does not exclude "/x/".
C16_TrailingSlashIgnored ==
    (ret.op = "require_auth" /\ ~ret.arg.path.is_none) =>
        LET p == ret.arg.path.str
            E == ret.arg.excluded_paths
        IN  /\ ret.exc = NoExc
            /\ (Len(p) > 0 /\ p[Len(p)] # 47) =>
                   ret.val = require_auth(StrObj(Append(p, 47)), E).val
            /\ (/\ ret.val = PyFalse
                /\ \A i \in 1..Len(E.list) : ~HasStar(E.list[i])) =>
                   \E i \in 1..Len(E.list) :
                       WithoutTrailingSlashes(E.list[i])
                           = WithoutTrailingSlashes(p)
            /\ E = ListObj(<<StatusSlashPath>>) =>
                   /\ p \in {StatusPath, StatusSlashPath}
                          => ret.val = PyFalse
                   /\ p = UsersSlashPath => ret.val = PyTrue

\* C16 witness: require_auth was called with "/p" and the list of the one
\* pattern "/p/", and found the path excluded.
C16_Witness ==
    /\ ret.op = "require_auth"
    /\ ret.arg.path = StrObj(StatusPath)
    /\ ret.arg.excluded_paths = ListObj(<<StatusSlashPath>>)
    /\ ret.val = PyFalse

StartsWith(s, prefix) ==
    /\ Len(prefix) <= Len(s)
    /\ SubSeq(s, 1, Len(prefix)) = prefix

\* a pattern that ends in "*" and has no other "*"
EndsInOneStar(pattern) ==
    /\ Len(pattern) > 0
    /\ pattern[Len(pattern)] = 42
    /\ ~HasStar(SubSeq(pattern, 1, Len(pattern) - 1))

\* C17: a pattern ending in "*" excludes exactly the paths whose
\* trailing-slash-normalised form starts with the pattern's text before the
\* "*": for a non-empty path and the list of one such pattern, require_auth
\* returns False if and only if the path, with "/" appended when it does not
\* end in one, starts with that text.
C17_StarExcludesByPrefix ==
    (/\ ret.op = "require_auth"
     /\ ~FalsyStr(ret.arg.path)
     /\ ~ret.arg.excluded_paths.is_none
     /\ Len(ret.arg.excluded_paths.list) = 1
     /\ EndsInOneStar(ret.arg.excluded_paths.list[1])) =>
        LET p == ret.arg.path.str
            pattern == ret.arg.excluded_paths.list[1]
            normalised == IF p[Len(p)] = 47 THEN p ELSE Append(p, 47)
        IN  (ret.val = PyFalse)
                <=> StartsWith(normalised,
                               SubSeq(pattern, 1, Len(pattern) - 1))

\* C18: starting the 0x02 application fails with the configuration error
\* ValueError when AUTH_TYPE names no registered variant, and otherwise
\* app.auth is the authenticator of the variant AUTH_TYPE names, never
\* another one.
C18_UnknownAuthTypeRefused ==
    ret.op = "start" =>
        LET key == AUTH_TYPE(ret.arg)
        IN  IF key \in {"basic_auth", "session_auth", "session_exp_auth",
                        "session_db_auth"}
                THEN /\ ret.exc = NoExc
                     /\ ret.val =
                            CASE key = "basic_auth" -> "BasicAuth"
                              [] key = "session_auth" -> "SessionAuth"
                              [] key = "session_exp_auth" -> "SessionExpAuth"
                              [] key = "session_db_auth" -> "SessionDBAuth"
            ELSE ret.exc = "ValueError"

\* the path is one the hook lets through without looking at credentials
Excluded(path) ==
    \E i \in 1..Len(EXCLUDED_PATHS.list) :
        WithoutTrailingSlashes(EXCLUDED_PATHS.list[i])
            = WithoutTrailingSlashes(path)

C19_Step ==
    ret'.op = "handle_authentication" =>
        LET request == ret'.arg
            carries == \/ ~Falsy(request.authorization)
                       \/ ~Falsy(request.cookie)
            user == current_user(
                        auth_type, user_id_by_session_id, exp_data, models,
                        session_duration, request, now)
            no_user == user.exc = NoExc /\ Falsy(user.val)
        IN  IF Excluded(request.path)
                THEN /\ ret'.exc = NoExc
                     /\ UNCHANGED <<user_id_by_session_id, exp_data, models>>
            ELSE /\ ret'.exc \in {NoExc, "Unauthorized", "Forbidden"}
                 /\ ret'.exc = "Unauthorized" <=> ~carries
                 /\ ret'.exc = "Forbidden" <=> (carries /\ no_user)
                 /\ ret'.exc = NoExc =>
                        (user.exc = NoExc /\ ~Falsy(user.val))

\* C19: for every request the before_request hook of 0x02 handles: a request
\* to an excluded path goes on to its handler and no credential is looked
\* at; a request to another path is answered 401 exactly when it carries
\* neither an Authorization header nor a session cookie, 403 exactly when it
\* carries one of them and current_user returns no user, and goes on to its
\* handler only when current_user returned a user.
C19_HookOutcomes == [][C19_Step]_vars

\* C20: `key in d` on an ExpiringDict is True only if the key is held and
\* not expired: with expiration_time > 0, a key set more than expiration_time
\* seconds ago and not read since is not `in d`.
C20_ContainsOnlyLiveKeys ==
    (ret.op = "contains" /\ ret.val = PyTrue) =>
        /\ ret.arg \in DOMAIN ed_data
        /\ ed_expiration > 0 => ~EdPastBound(ret.arg, now)

\* every key but k is held by both stores with the same entry
SameButFor(data, after, k) ==
    /\ DOMAIN after \ {k} = DOMAIN data \ {k}
    /\ \A j \in DOMAIN data \ {k} : after[j] = data[j]

\* C21 as stated: `del d[key]` on an ExpiringDict removes the key, expired or
\* not, and when the key is not held it raises nothing and changes nothing.
C21_DeleteNeverRaises ==
    [][ ret'.op = "delitem" =>
            /\ ret'.exc = NoExc
            /\ ret'.arg \notin DOMAIN ed_data'
            /\ SameButFor(ed_data, ed_data', ret'.arg)
      ]_vars

\* C21 amended: `del d[key]` on an ExpiringDict removes a key that is held,
\* expired or not, and leaves the other keys as they were; when the key is
\* not held it raises KeyError and changes nothing.
C21_DeleteHeldOrKeyError ==
    [][ ret'.op = "delitem" =>
            IF ret'.arg \in DOMAIN ed_data
                THEN /\ ret'.exc = NoExc
                     /\ ret'.arg \notin DOMAIN ed_data'
                     /\ SameButFor(ed_data, ed_data', ret'.arg)
                ELSE /\ ret'.exc = "KeyError"
                     /\ ed_data' = ed_data
      ]_vars

\* C21 witness: `del d[key]` of a key that is not held, while another key is,
\* raised KeyError.
C21_Witness ==
    /\ ret.op = "delitem"
    /\ ret.exc = "KeyError"
    /\ ret.arg \notin DOMAIN ed_data
    /\ ed_data # EmptyDict

\* C22: utils.ExpiringDict.get(key, default) returns the default when the
\* key is not held and when it is held but expired, and then the key is
\* removed; otherwise it returns the value last set.
C22_GetReturnsDefault ==
    [][ (ret'.op = "get" /\ ed_cls = "utils") =>
            /\ ret'.exc = NoExc
            /\ IF ret'.arg \notin DOMAIN ed_data
                   THEN /\ ret'.val = ret'.default
                        /\ ed_data' = ed_data
               ELSE IF ed_expiration > 0 /\ EdPastBound(ret'.arg, now)
                   THEN /\ ret'.val = ret'.default
                        /\ ret'.arg \notin DOMAIN ed_data'
               ELSE /\ ret'.val = ed_set[ret'.arg].value
                    /\ ed_data' = ed_data
      ]_vars

RowsOfEmail(table, email) ==
    {i \in 1..Len(table) : table[i].email = email}

C24_Step ==
    ret'.op = "register_user" =>
        IF RowsOfEmail(db_users, ret'.arg) # {}
            THEN /\ ret'.exc = "ValueError"
                 /\ db_users' = db_users
            ELSE /\ ret'.exc = NoExc
                 /\ Len(db_users') = Len(db_users) + 1
                 /\ SubSeq(db_users', 1, Len(db_users)) = db_users
                 /\ db_users'[Len(db_users')].email = ret'.arg
                 /\ db_users'[Len(db_users')].id = ret'.val

C25_SessionResolvesWhileLive ==
    ret.op = "get_user_from_session_id" =>
        /\ ret.exc = NoExc
        /\ IF ret.arg \in DOMAIN issued \ destroyed
               THEN \E i \in 1..Len(db_users) :
                        /\ db_users[i].id = ret.val
                        /\ db_users[i].email = issued[ret.arg].user_id
               ELSE ret.val = None

\* C25 witness: get_user_from_session_id was called with the id of a session
\* that was destroyed or replaced, and returned None.
C25_Witness ==
    /\ ret.op = "get_user_from_session_id"
    /\ ret.arg \in destroyed
    /\ ret.val = None

\* the table but for the password and the reset token of the rows of email
SameButPassword(table, after, email) ==
    /\ Len(after) = Len(table)
    /\ \A i \in 1..Len(table) :
           IF table[i].email = email
               THEN /\ after[i].id = table[i].id
                    /\ after[i].email = table[i].email
                    /\ after[i].session_id = table[i].session_id
               ELSE after[i] = table[i]

\* C26: in the 0x03 service update_password(t, p) changes a password only if
\* t is the token get_reset_password_token most recently returned for some
\* user and not yet used, and then it is that user's password; for every
\* other t, a null token among them, it raises ValueError and changes no
\* user.
C26_TokenWorksOnce ==
    [][ ret'.op = "update_password" =>
            IF ret'.arg \in DOMAIN reset_tokens
                THEN /\ ret'.exc = NoExc
                     /\ SameButPassword(db_users, db_users',
                                        reset_tokens[ret'.arg])
                ELSE /\ ret'.exc = "ValueError"
                     /\ db_users' = db_users
      ]_vars

\* C27: when several threads construct DB() concurrently every call returns
\* the same instance, and the initialisation that drops and recreates the
\* tables runs exactly once, never after a user has been added.
C27_OneInstanceOneInit ==
    [][ /\ db_class'.inits <= 1
        /\ \A t \in Threads :
               threads'[t].pc = "done" =>
                   /\ db_class'.inits = 1
                   /\ threads'[t].val # None
                   /\ \A u \in Threads :
                          threads'[u].pc = "done" =>
                              threads'[u].val = threads'[t].val
        /\ db_class'.inits > db_class.inits => db_users = <<>>
      ]_vars

\* C27 witness: the calls of DB() of both threads have returned, with the
\* same instance, the tables were initialised once, and a user has been
\* added.
C27_Witness ==
    /\ \A t \in Threads : threads[t].pc = "done"
    /\ threads["t1"].val = threads["t2"].val
    /\ db_class.inits = 1
    /\ db_users # <<>>

\* the sessions a lookup can still resolve, as a dict from session id to user
\* id: the entries of the class-level dict, the entries of the ExpiringDict
\* that have not expired, the UserSession objects of the storage
LiveSessions(auth, store, data, m, duration, t) ==
    CASE auth = "session_auth" -> store
      [] auth = "session_exp_auth" ->
            [k \in {x \in DOMAIN data : ExpIsValid(data, duration, x, t)}
                 |-> data[k].value.user_id]
      [] auth = "session_db_auth" ->
            LET st == ClsStorage(m, "UserSession")
                rows == {i \in 1..Len(st) : st[i].cls = "UserSession"}
            IN  [k \in {st[i].session_id : i \in rows}
                     |-> st[CHOOSE i \in rows : st[i].session_id = k].user_id]

LiveNow ==
    LiveSessions(auth_type, user_id_by_session_id, exp_data, models,
                 session_duration, now)

\* the stored users a form's email and password are those of
UsersOfForm(request) ==
    LET st == ClsStorage(models, "User")
    IN  {st[i].id : i \in {j \in 1..Len(st) :
             /\ st[j].cls = "User"
             /\ IsStr(request.password)
             /\ st[j].email = request.email
             /\ st[j].password = encrypt_password(request.password)}}

\* the request carries no cookie that names a live session
NotLoggedIn(request) ==
    Falsy(request.cookie) \/ request.cookie \notin DOMAIN LiveNow

\* C28: POST /auth_session/login creates a session only on success.  A login
\* answered 400 (email or password missing), 404 (no user of that email) or
\* 401 (wrong password) leaves the live sessions as they were; a login with
\* the credentials of a stored user, not already logged in, is answered 200,
\* adds exactly one session, new, that maps to that user, and sets its id as
\* the session cookie of the response; and the live sessions change in no
\* other login.
C28_Step ==
    ret'.op = "session_login" =>
        LET request == ret'.arg
        IN  /\ LiveNow' # LiveNow =>
                /\ ret'.exc = NoExc
                /\ ret'.val = "200"
                /\ UsersOfForm(request) # {}
            /\ (UsersOfForm(request) # {} /\ NotLoggedIn(request)) =>
                /\ ret'.exc = NoExc
                /\ ret'.val = "200"
                /\ IsStr(ret'.cookie)
                /\ ret'.cookie \notin DOMAIN LiveNow
                /\ \E user_id \in UsersOfForm(request) :
                       LiveNow' = DictSet(LiveNow, ret'.cookie, user_id)
C28_LoginCreatesOnSuccess == [][C28_Step]_vars

\* the same, of the authenticators that keep their sessions in memory
C28_InMemory == [][auth_type # "session_db_auth" => C28_Step]_vars

\* what session_login answers to the request in the current state, and the
\* live sessions it leaves
LoginOutcome(request) ==
    LET r == session_login(auth_type, user_id_by_session_id, exp_data,
                           models, session_duration, request, uuids, now)
    IN  [val |-> r.val, error |-> r.error, cookie |-> r.cookie,
         exc |-> r.exc,
         live |-> LiveSessions(auth_type, r.store, r.data, r.m,
                               session_duration, now)]

\* C29: a login whose cookie names a live session is answered 400 'User
\* already logged in' and creates no session, whatever its credentials; a
\* login whose cookie names no live session (expired, destroyed or never
\* issued) is answered, and leaves the sessions, as the same login without a
\* cookie.
C29_Step ==
    ret'.op = "session_login" =>
        LET request == ret'.arg
            bare == LoginRequest(None, request.email, request.password)
        IN  /\ (~Falsy(request.cookie) /\ request.cookie \in DOMAIN LiveNow)
                => /\ ret'.exc = NoExc
                   /\ ret'.val = "400"
                   /\ ret'.error = "User already logged in"
                   /\ LiveNow' = LiveNow
            /\ (request.cookie # None /\ request.cookie \notin DOMAIN LiveNow)
                => /\ ret'.exc = LoginOutcome(bare).exc
                   /\ ret'.val = LoginOutcome(bare).val
                   /\ ret'.error = LoginOutcome(bare).error
                   /\ ret'.cookie = LoginOutcome(bare).cookie
                   /\ LiveNow' = LoginOutcome(bare).live
C29_LiveCookieRefused == [][C29_Step]_vars

\* the same, of the authenticators that keep their sessions in memory
C29_InMemory == [][auth_type # "session_db_auth" => C29_Step]_vars

\* C30: DELETE /auth_session/logout answers 200 only when the cookie named a
\* live session and this request removed exactly that session; once a logout
\* was answered 200, every request to a protected path that carries the same
\* cookie is answered 403; and a logout whose cookie names no live session
\* leaves the live sessions as they were.
C30_Step ==
    /\ ret'.op = "session_logout" =>
          LET cookie == ret'.arg.cookie
          IN  /\ (ret'.exc = NoExc /\ ret'.val = "200") =>
                     /\ ~Falsy(cookie)
                     /\ cookie \in DOMAIN LiveNow
                     /\ LiveNow' = DictDel(LiveNow, cookie)
              /\ (Falsy(cookie) \/ cookie \notin DOMAIN LiveNow) =>
                     LiveNow' = LiveNow
              /\ cookie \in destroyed =>
                     ret'.exc = NoExc /\ ret'.val = "403"
    /\ (/\ ret'.op = "handle_authentication"
        /\ ret'.arg.cookie \in destroyed
        /\ RequiresAuth[ret'.arg.path].val = PyTrue)
          => ret'.exc = "Forbidden"
C30_LogoutDestroys == [][C30_Step]_vars

\* a logout was answered 200 and a later request to a protected path with
\* the same cookie has just been answered 403
C30_Witness ==
    /\ ret.op = "handle_authentication"
    /\ ret.arg.cookie \in destroyed
    /\ RequiresAuth[ret.arg.path].val = PyTrue
    /\ ret.exc = "Forbidden"

\* the email and the password of 'email:password': the text before the first
\* ':' and everything after it
FirstColon(text) ==
    CHOOSE i \in 1..Len(text) :
        text[i] = 58 /\ \A j \in 1..(i - 1) : text[j] # 58
EmailOf(text) == SubSeq(text, 1, FirstColon(text) - 1)
PasswordOf(text) == SubSeq(text, FirstColon(text) + 1, Len(text))

\* the stored users the text names: those of its email whose password
\* verifies
UsersOfText(text) ==
    IF \A i \in 1..Len(text) : text[i] # 58 THEN {}
    ELSE {basic_users[i] : i \in {j \in 1..Len(basic_users) :
             /\ basic_users[j].email = EmailOf(text)
             /\ PasswordOf(text) # <<>>
             /\ basic_users[j].password
                    = BasicEncryptPassword(PasswordOf(text))}}

\* C31: BasicAuth.current_user returns a user only when the header is
\* 'Basic ' and the base64 of 'email:password', a stored user has that email
\* and the password, everything after the first ':', verifies against that
\* user: the user returned is one the encoded text names.
C31_UserOnlyForItsCredentials ==
    (ret.op = "current_user_of" /\ ret.exc = NoExc /\ ret.val # NoneObj)
        => ret.val \in UsersOfText(ret.text)

\* the same, of the texts that do not end in a line feed
C31_NoFinalLineFeed ==
    (/\ ret.op = "current_user_of"
     /\ ret.exc = NoExc
     /\ ret.val # NoneObj
     /\ ret.text[Len(ret.text)] # 10)
        => ret.val \in UsersOfText(ret.text)

\* and the user a text names is the one returned
C31_NamedUserReturned ==
    (ret.op = "current_user_of" /\ UsersOfText(ret.text) # {})
        => ret.exc = NoExc /\ ret.val \in UsersOfText(ret.text)

\* C32: when two register_user calls with the same new email have run
\* concurrently, whatever the interleaving, at most one user with that email
\* exists and the other call has raised ValueError.
C32_ConcurrentRegisterOnce ==
    (/\ At("t1", "done")
     /\ At("t2", "done")
     /\ threads["t1"].request.email = threads["t2"].request.email)
        => /\ Cardinality(RowsOfEmail(db_users,
                                      threads["t1"].request.email)) <= 1
           /\ \E t \in Threads : threads[t].exc = "ValueError"

\* C33: in every interleaving of concurrent reads, writes and deletes of one
\* key of an ExpiringDict, no call ends in an exception, but for the KeyError
\* of a delete that found the key not held (C21), and each read returns None
\* or a value that was set for the key.
C33_Step ==
    \A t \in Threads :
        (threads[t].pc # "done" /\ threads'[t].pc = "done") =>
            /\ threads'[t].exc = NoExc \/ threads[t].pc = "delitem"
            /\ (threads'[t].request.op = "getitem"
                    /\ threads'[t].exc = NoExc
                    /\ threads'[t].val # None)
                   => /\ EdKey \in DOMAIN ed_set
                      /\ threads'[t].val \in ed_set[EdKey]
C33_RacesNeverRaise == [][C33_Step]_vars

\* the created_at of every session held: of the entries of the ExpiringDict
\* and of the UserSession objects of the storage
CreatedAts ==
    [store |-> [k \in DOMAIN exp_data |-> exp_data[k].created_at],
     objs |-> LET st == ClsStorage(models, "UserSession")
              IN  {<<st[i].session_id, st[i].created_at>> :
                       i \in {j \in 1..Len(st) :
                                  st[j].cls = "UserSession"}}]

\* C34: looking a session up never extends its life.  With SessionExpAuth or
\* SessionDBAuth and session_duration > 0, a lookup (user_id_for_session_id
\* or current_user) of a session created at time t made after the clock has
\* passed t + session_duration resolves to no user, and a lookup leaves the
\* created_at of every session it keeps as it was.
C34_Step ==
    (/\ ret'.op \in {"user_id_for_session_id", "current_user"}
     /\ auth_type \in {"session_exp_auth", "session_db_auth"}
     /\ session_duration > 0)
        => /\ (/\ ret'.arg \in DOMAIN issued
               /\ now > issued[ret'.arg].at
                            + session_duration * TicksPerSecond)
                  => (ret'.exc # NoExc \/ ret'.val = None)
           /\ \A k \in DOMAIN CreatedAts'.store :
                  /\ k \in DOMAIN CreatedAts.store
                  /\ CreatedAts'.store[k] = CreatedAts.store[k]
           /\ CreatedAts'.objs \subseteq CreatedAts.objs
C34_LookupNeverExtends == [][C34_Step]_vars

\* a SessionExpAuth session that resolved in a lookup made within its
\* duration has just been looked up after it and resolved to no user
C34_Witness ==
    /\ auth_type = "session_exp_auth"
    /\ session_duration > 0
    /\ ret.op = "user_id_for_session_id"
    /\ ret.arg \in DOMAIN issued
    /\ ret.arg \notin destroyed
    /\ now > issued[ret.arg].at + session_duration * TicksPerSecond
    /\ ret.exc = NoExc
    /\ ret.val = None

\* what user_id_for_session_id answers for a session id in the current
\* state: the user id or None, or the exception
Resolve(session_id) ==
    LET r == user_id_for_session_id(auth_type, user_id_by_session_id,
                                    exp_data, models, session_duration,
                                    session_id, now)
    IN  [val |-> r.val, exc |-> r.exc]

\* C35: destroy_session removes exactly the session named by the request
\* cookie.  In SessionAuth, SessionExpAuth and SessionDBAuth every other
\* session issued, other sessions of the same user included, is held after
\* the call as before it and resolves to the same user id; and when the
\* call returned True the named session is held no more.
C35_Step ==
    ret'.op = "destroy_session" =>
        /\ \A k \in DOMAIN issued :
               k # ret'.arg =>
                   /\ Resolve(k)' = Resolve(k)
                   /\ (k \in DOMAIN LiveNow') = (k \in DOMAIN LiveNow)
                   /\ k \in DOMAIN LiveNow => LiveNow'[k] = LiveNow[k]
        /\ (ret'.exc = NoExc /\ ret'.val = PyTrue)
               => ret'.arg \notin DOMAIN LiveNow'
C35_DestroyOnlyTheNamed == [][C35_Step]_vars

\* destroy_session has just returned True for one session of a user while
\* another session of the same user is held
C35_Witness ==
    /\ ret.op = "destroy_session"
    /\ ret.exc = NoExc
    /\ ret.val = PyTrue
    /\ ret.arg \in DOMAIN issued
    /\ \E k \in DOMAIN LiveNow :
           /\ k # ret.arg
           /\ k \in DOMAIN issued
           /\ LiveNow[k] = issued[ret.arg].user_id

\* the session was created and not destroyed, and its duration, if it has
\* one, is not over
StillLive(session_id) ==
    /\ session_id \in DOMAIN issued
    /\ session_id \notin destroyed
    /\ \/ auth_type = "session_auth"
       \/ session_duration <= 0
       \/ now <= issued[session_id].at + session_duration * TicksPerSecond

\* C36: all plain SessionAuth instances share one store: a session created
\* through one instance resolves, and can be destroyed, through any other.
\* Each SessionExpAuth instance has a store of its own: a session created
\* through one instance does not resolve through another, and resolves
\* through its own.
C36_Step ==
    /\ (ret'.op = "user_id_for_session_id" /\ StillLive(ret'.arg)) =>
           /\ ret'.exc = NoExc
           /\ ret'.val =
                  IF \/ auth_type = "session_auth"
                     \/ ret'.inst = issued[ret'.arg].by
                      THEN issued[ret'.arg].user_id
                      ELSE None
    /\ (ret'.op = "destroy_session" /\ StillLive(ret'.arg)) =>
           /\ ret'.exc = NoExc
           /\ ret'.val =
                  IF \/ auth_type = "session_auth"
                     \/ ret'.inst = issued[ret'.arg].by
                      THEN PyTrue
                      ELSE PyFalse
C36_StoresOfInstances == [][C36_Step]_vars

\* a session created through one SessionExpAuth instance has just been
\* looked up through the other and did not resolve
C36_Witness ==
    /\ auth_type = "session_exp_auth"
    /\ ret.op = "user_id_for_session_id"
    /\ StillLive(ret.arg)
    /\ ret.inst # issued[ret.arg].by
    /\ ret.val = None

\* a session created through one SessionAuth instance has just been
\* destroyed through the other
C36_WitnessShared ==
    /\ auth_type = "session_auth"
    /\ ret.op = "destroy_session"
    /\ ret.arg \in destroyed
    /\ ret.inst # issued[ret.arg].by
    /\ ret.val = PyTrue

\* User.all(): the values of User._storage; User.count(), User.get and
\* User.search are functions of it
UserAll == ClsStorage(models, "User")

\* C37: creating, resolving or destroying a session through SessionDBAuth
\* never changes the collection of stored users: User.all(), and with it
\* User.count(), User.get and User.search, gives after the call what it gave
\* before, whether or not a users file existed at startup.
C37_Step ==
    (/\ auth_type = "session_db_auth"
     /\ ret'.op \in {"create_session", "user_id_for_session_id",
                     "destroy_session"})
        => UserAll' = UserAll
C37_SessionsLeaveUsers == [][C37_Step]_vars

\* the same, once User has a storage dict of its own, which it gets when a
\* users file is loaded at startup
C37_OwnStorage == [][models.User_own => C37_Step]_vars

\* UserSession._storage, the sessions held in memory
UserSessionStorage == ClsStorage(models, "UserSession")

\* C38: when the write of the storage file fails inside Base.save or
\* Base.remove, the in-memory storage is as it was before the call: the
\* session of a failed create_session is not in it, and the session of a
\* failed destroy_session is still in it.
C38_FailedWriteLeavesMemory ==
    [][ (/\ ret'.op \in {"create_session", "destroy_session"}
         /\ ret'.wrote
         /\ ~ret'.ok) =>
            UserSessionStorage' = UserSessionStorage
      ]_vars

\* C38, what the code keeps: a failed write leaves the file as it was, while
\* the memory has already taken the change of the call.
C38_FailedWriteLeavesFile ==
    [][ (/\ ret'.op \in {"create_session", "destroy_session"}
         /\ ret'.wrote
         /\ ~ret'.ok) =>
            /\ models'.file_UserSession = models.file_UserSession
            /\ UserSessionStorage' # UserSessionStorage
      ]_vars

\* the rows update_password(reset_token, ...) matches
RowsOfToken(table, reset_token) ==
    {i \in 1..Len(table) : table[i].reset_token = reset_token}

\* the session ids handed out so far
SessionIdsSoFar == {uuid4(k) : k \in 0..(uuids - 1)}

C39_Step ==
    (ret'.op = "update_password" /\ ret'.exc = NoExc) =>
        /\ Cardinality(RowsOfToken(db_users, ret'.arg)) = 1
        /\ Len(db_users') = Len(db_users)
        /\ \A i \in 1..Len(db_users) :
               IF i \in RowsOfToken(db_users, ret'.arg)
                   THEN db_users'[i] =
                            [db_users[i] EXCEPT
                                !.hashed_password =
                                    hash_password(ret'.password),
                                !.reset_token = None]
                   ELSE db_users'[i] = db_users[i]
        /\ \A s \in SessionIdsSoFar :
               Auth_get_user_from_session_id(db_users', s).val.id =
                   Auth_get_user_from_session_id(db_users, s).val.id

\* C39: a successful update_password of the 0x03 service changes only the
\* hashed_password and the reset_token of the one user it matched: every
\* other user is unchanged, the session_id of the matched user is unchanged,
\* and every session id resolves to the same user as before the call.
C39_ResetKeepsSessions == [][C39_Step]_vars

\* C39 witness: update_password succeeded with a token that was handed out,
\* for a user whose session, opened before, is still in its row, next to
\* another user.
C39_Witness ==
    /\ ret.op = "update_password"
    /\ ret.exc = NoExc
    /\ ret.arg \in SessionIdsSoFar
    /\ Len(db_users) = 2
    /\ \E i \in 1..Len(db_users) :
           /\ db_users[i].hashed_password = hash_password(ret.password)
           /\ db_users[i].session_id \in DOMAIN issued
           /\ Auth_get_user_from_session_id(
                  db_users, db_users[i].session_id).val.id = db_users[i].id

====
